---- MODULE Spec2Model ----
(***************************************************************************)
(* Polymarket gap detector: sentiment extraction, cross-market matching,    *)
(* gap detection and reporting, modelled from src/src/agents/*.py.          *)
(*                                                                         *)
(* Numbers: sentiment scores and confidences are kept in thousandths       *)
(* (DECIMAL(4,3) columns), probabilities and matcher confidences in        *)
(* hundredths, edge percentages in hundredths of a percent (DECIMAL(5,2)). *)
(* Float arithmetic is modelled by exact rational arithmetic.              *)
(***************************************************************************)
EXTENDS Integers, Sequences, FiniteSets, Bags, TLC

VARIABLES
    contents,        \* _analyze_batch: number of input texts of the call
    response,        \* _analyze_batch: what the generative call gave back
    results,         \* _analyze_batch: the returned list
    bpc,             \* _analyze_batch: "call" before, "done" after
    socialPosts,     \* the rows of social_posts: a bag of [post_id, related_contracts]
    lastCall,        \* the arguments and the outcome of the last observed call on the store
    sentimentStore,  \* the sentiment_analysis table, a bag of rows
    path,            \* the branch of _analyze_batch the last analysed batch took
    resent,          \* (post, contract) pairs sent to the service while they had a row
    skipped,         \* how many posts the last analysis left out because they had a row
    settings,        \* the Settings values the agents read
    gapStore,        \* the detected_gaps table, in insertion order
    report,          \* what the last ReportingAgent.run returned
    polymarket_prob, \* the contract's current_yes_odds, hundredths (NoOdds: NULL)
    candidates,      \* the competitor markets the searches returned
    judgment,        \* the matcher's generative response
    confirmed,       \* what _match_markets_with_llm returned
    emitted,         \* the gap candidates the detector returned
    mpc,             \* "call" before the call, "done" after it
    history,         \* historical_odds.yes_odds of the contract, oldest first, hundredths
    sentiments,      \* the contract's sentiment_analysis rows the detectors read
    llmFails,        \* which explanation calls of the detector raise, by call number
    cpc,             \* where the analysis cycle stands
    queue,           \* the contracts analyze_all_contracts still has to analyse
    dnext,           \* the detector detect_all_gaps calls next, 1..4; 5: store the gaps
    attempted,       \* per contract, the detectors called in this cycle
    found,           \* the gaps list of detect_all_gaps for the contract at hand
    pending,         \* rows added to the session of analyze_all_contracts, not committed
    added,           \* every row added to that session in this cycle
    commitResult,    \* how the commit of that session ended
    request,         \* PolymarketAPI._make_request: attempt, requests sent, sleeps, outcome
    searchFailed,    \* the platforms whose search_markets request fails in this pass
    config,          \* config.py: the environment, the global _settings, the last get_settings call
    cycle,           \* run_single_cycle: the stage at hand, the stages run, the results dict
    monitor          \* run_continuous: where the loop stands, cycles started, cleanup

batchVars == <<contents, response, results, bpc>>
storeVars == <<socialPosts, lastCall, sentimentStore, path, resent, skipped>>
reportVars == <<settings, gapStore, report>>
matchVars == <<polymarket_prob, candidates, judgment, confirmed, emitted, mpc>>
inputVars == <<history, sentiments, llmFails>>
cycleVars == <<cpc, queue, dnext, attempted, found, pending, added, commitResult>>
serviceVars == <<request, searchFailed, config, cycle, monitor>>
vars == <<batchVars, storeVars, reportVars, matchVars, inputVars, cycleVars, serviceVars>>

Max(a, b) == IF a >= b THEN a ELSE b
Min(a, b) == IF a <= b THEN a ELSE b
Abs(x) == IF x < 0 THEN -x ELSE x

(***************************************************************************)
(* JSON values as the generative service may return them.  A field is a    *)
(* tagged value: t is "num", "nan", "str", "null", "list" or "missing"     *)
(* (key absent); v is the number, s the string, l the list.                *)
(***************************************************************************)
Num(x) == [t |-> "num", v |-> x, s |-> "", l |-> <<>>]
NaN == [t |-> "nan", v |-> 0, s |-> "", l |-> <<>>]
Str(x) == [t |-> "str", v |-> 0, s |-> x, l |-> <<>>]
Null == [t |-> "null", v |-> 0, s |-> "", l |-> <<>>]
Lst(x) == [t |-> "list", v |-> 0, s |-> "", l |-> x]
Missing == [t |-> "missing", v |-> 0, s |-> "", l |-> <<>>]
Bool(b) == [t |-> "bool", v |-> IF b THEN 1 ELSE 0, s |-> "", l |-> <<>>]

\* current_yes_odds is NULL; "not contract.current_yes_odds" is also true of 0.
NoOdds == -1
OddsPresent(p) == p # NoOdds
HasOdds(p) == p # NoOdds /\ p # 0

\* An element of a parsed response.  form: "dict" (a JSON object), "scalar"
\* (any other JSON value), "badfrag" (a {...} fragment that is not JSON).
Item(form, score, label, conf, topics) ==
    [form |-> form, sentiment_score |-> score, sentiment_label |-> label,
     confidence |-> conf, topics |-> topics]

ItemGood == Item("dict", Num(500), Str("Positive"), Num(800), Lst(<<"t1">>))
ItemHigh == Item("dict", Num(1700), Str("Bullish"), Num(1500), Missing)
ItemLow == Item("dict", Num(-2000), Str("NEGATIVE"), Num(-300), Str("abc"))
ItemNaN == Item("dict", NaN, Str("neutral"), NaN, Lst(<<"a", "b", "c", "d", "e", "f">>))
ItemNoScore == Item("dict", Missing, Str("positive"), Num(900), Lst(<<>>))
ItemBadConf == Item("dict", Num(100), Str("neutral"), Str("high"), Lst(<<>>))
ItemNumLabel == Item("dict", Num(200), Num(1), Num(700), Lst(<<>>))
ItemNullTopics == Item("dict", Num(300), Str("negative"), Num(600), Null)
ItemLongLabel == Item("dict", Num(400), Str("cautiously optimistic"), Num(700), Lst(<<>>))
ItemScalar == Item("scalar", Missing, Missing, Missing, Missing)
ItemBadFrag == Item("badfrag", Missing, Missing, Missing, Missing)

\* str.lower() on the label strings of the model.
Lower(s) ==
    CASE s = "Positive" -> "positive"
      [] s = "NEGATIVE" -> "negative"
      [] s = "Bullish" -> "bullish"
      [] OTHER -> s

\* float(x): the number, or the exception float() raises.
FloatExc(x) ==
    CASE x.t = "missing" -> "KeyError"
      [] x.t = "str" -> "ValueError"
      [] x.t \in {"null", "list"} -> "TypeError"
      [] OTHER -> "none"

\* max(lo, min(hi, x)); Python's min(hi, nan) is hi.
ClampNoMin(lo, hi, x) == IF x.t = "nan" THEN hi ELSE Max(lo, x.v)
Clamp(lo, hi, x) == IF x.t = "nan" THEN hi ELSE Max(lo, Min(hi, x.v))

\* item['sentiment_label'].lower()
LabelExc(x) ==
    CASE x.t = "missing" -> "KeyError"
      [] x.t = "str" -> "none"
      [] OTHER -> "AttributeError"

\* item.get('topics', [])[:5]
TopicsExc(x) == IF x.t \in {"num", "nan", "null"} THEN "TypeError" ELSE "none"
TopicsOf(x) ==
    IF x.t = "list" THEN Lst(SubSeq(x.l, 1, Min(5, Len(x.l))))
    ELSE IF x.t = "str" THEN x ELSE Lst(<<>>)

None == [isNone |-> TRUE, score |-> 0, label |-> "", confidence |-> 0, topics |-> Lst(<<>>)]

\* The first exception the dict literal of lines 163-168 raises, "none" if none.
ItemExc(item) ==
    IF item.form # "dict" THEN "TypeError"
    ELSE IF FloatExc(item.sentiment_score) # "none" THEN FloatExc(item.sentiment_score)
    ELSE IF LabelExc(item.sentiment_label) # "none" THEN LabelExc(item.sentiment_label)
    ELSE IF FloatExc(item.confidence) # "none" THEN FloatExc(item.confidence)
    ELSE TopicsExc(item.topics)

ItemRecord(item) ==
    [isNone |-> FALSE,
     score |-> Clamp(-1000, 1000, item.sentiment_score),
     label |-> Lower(item.sentiment_label.s),
     confidence |-> Clamp(0, 1000, item.confidence),
     topics |-> TopicsOf(item.topics)]

\* except (KeyError, ValueError, TypeError): results.append(None)
CaughtPerItem == {"KeyError", "ValueError", "TypeError"}

Escapes(items) == \E i \in 1..Len(items) : ItemExc(items[i]) \notin CaughtPerItem \cup {"none"}

ParseItems(items) ==
    [i \in 1..Len(items) |-> IF ItemExc(items[i]) = "none" THEN ItemRecord(items[i]) ELSE None]

Nones(n) == [i \in 1..n |-> None]

\* while len(results) < len(contents): results.append(None)
PadNone(res, n) == res
Pad(res, n) == IF Len(res) < n THEN res \o Nones(n - Len(res)) ELSE res

\* _analyze_single_post: one generative call; every failure gives None.
AnalyzeSinglePost(resp) ==
    IF resp.kind # "value" THEN None
    ELSE IF ItemExc(resp.items[1]) # "none" THEN None
    ELSE ItemRecord(resp.items[1])

\* The branch _analyze_batch takes: "error" (lines 205-207), "batch" (151-176),
\* "extract" (180-199) or "single" (203-204).
BatchPath(n, resp) ==
    LET parsed == SubSeq(resp.items, 1, Min(n, Len(resp.items)))
    IN  CASE resp.kind = "raise" -> "error"
          [] resp.kind \in {"list", "value"} -> IF Escapes(parsed) THEN "error" ELSE "batch"
          [] OTHER ->
                IF /\ Len(resp.items) >= n
                   /\ \A i \in 1..n : resp.items[i].form = "dict"
                   /\ ~Escapes(parsed)
                THEN "extract" ELSE "single"

\* _analyze_batch(contents) for n = len(contents), the batch response resp and
\* the responses singles[i] the fallback calls would get.
AnalyzeBatch(n, resp, singles) ==
    LET parsed == SubSeq(resp.items, 1, Min(n, Len(resp.items)))
    IN  CASE BatchPath(n, resp) = "error" -> Nones(n)
          [] BatchPath(n, resp) = "single" -> [i \in 1..n |-> AnalyzeSinglePost(singles[i])]
          [] OTHER -> Pad(ParseItems(parsed), n)

(***************************************************************************)
(* Inputs of the model.                                                    *)
(***************************************************************************)
MaxN == 3

SeqsUpTo(S, k) == UNION {[1..m -> S] : m \in 0..k}

DictItems == {ItemGood, ItemHigh, ItemLow, ItemNoScore, ItemNumLabel}
ListItems == DictItems \cup {ItemScalar}
FragItems == DictItems \cup {ItemBadFrag}

Responses(n) ==
    {[kind |-> "raise", items |-> <<>>]}
    \cup {[kind |-> "list", items |-> s] : s \in SeqsUpTo(ListItems, n + 1)}
    \cup {[kind |-> "value", items |-> <<i>>] : i \in ListItems \cup {ItemNaN, ItemBadConf, ItemNullTopics}}
    \cup {[kind |-> "garbled", items |-> s] : s \in SeqsUpTo(FragItems, n + 1)}

SingleResponses ==
    {[kind |-> "raise", items |-> <<>>]}
    \cup {[kind |-> "value", items |-> <<i>>] : i \in {ItemHigh, ItemNumLabel}}

BatchIdle == contents = 0 /\ response = [kind |-> "raise", items |-> <<>>] /\ results = <<>> /\ bpc = "idle"

NoCall == [op |-> "none"]
StoreIdle ==
    /\ socialPosts = EmptyBag /\ lastCall = NoCall
    /\ sentimentStore = EmptyBag /\ path = "none" /\ resent = {} /\ skipped = 0

NoReport == [status |-> "none", gaps |-> <<>>]

\* The defaults of Settings, arbitrage_min_edge in hundredths.
DefaultSettings ==
    [max_gaps_to_display |-> 10, min_confidence_score |-> 60,
     arbitrage_min_edge |-> 10, enable_arbitrage_detection |-> TRUE,
     gap_detection_threshold |-> 15, enable_historical_analysis |-> TRUE]

ReportIdle ==
    /\ settings = DefaultSettings
    /\ gapStore = <<>>
    /\ report = NoReport

InputIdle == history = <<>> /\ sentiments = <<>> /\ llmFails = {}

NoRequest ==
    [pc |-> "idle", attempt |-> 0, sent |-> 0, slept |-> <<>>, wire |-> 0, retries |-> 0,
     last |-> "none"]

\* _settings = None
NoneSettings ==
    [isNone |-> TRUE, llm_provider |-> "", has_key |-> FALSE, enable_twitter |-> FALSE,
     has_twitter_credentials |-> FALSE, validated |-> FALSE]
DefaultEnv ==
    [llm_provider |-> "ollama", has_key |-> FALSE, enable_twitter |-> FALSE,
     has_twitter_credentials |-> FALSE]
NoConfig ==
    [env |-> DefaultEnv, cached |-> NoneSettings, last |-> "none", returned |-> NoneSettings,
     calls |-> 0]

Stages == <<"collection", "sentiment", "gaps", "report">>
NoCycle == [pc |-> "idle", ran |-> <<>>, success |-> FALSE, keys |-> {}, errors |-> 0, failed |-> {}]
NoMonitor ==
    [pc |-> "off", cycle_count |-> 0, slept |-> FALSE, failures |-> 0, interrupted |-> FALSE,
     closed |-> FALSE]

MainIdle == config = NoConfig /\ cycle = NoCycle /\ monitor = NoMonitor
ServiceIdle == request = NoRequest /\ searchFailed = {} /\ MainIdle

CycleIdle ==
    /\ cpc = "off"
    /\ queue = <<>>
    /\ dnext = 1
    /\ attempted = <<>>
    /\ found = <<>>
    /\ pending = <<>>
    /\ added = <<>>
    /\ commitResult = "none"

MatchIdle ==
    /\ polymarket_prob = NoOdds
    /\ candidates = <<>>
    /\ judgment = [kind |-> "raise", items |-> <<>>]
    /\ confirmed = <<>>
    /\ emitted = <<>>
    /\ mpc = "idle"

(***************************************************************************)
(* SpecBatch: one call of _analyze_batch on every input of the model.      *)
(***************************************************************************)
InitBatch ==
    /\ InputIdle
    /\ CycleIdle
    /\ ServiceIdle
    /\ contents \in 1..MaxN
    /\ response \in Responses(contents)
    /\ results = <<>>
    /\ bpc = "call"
    /\ StoreIdle
    /\ ReportIdle
    /\ MatchIdle

CallAnalyzeBatch ==
    /\ bpc = "call"
    /\ \E singles \in [1..contents -> SingleResponses] :
          results' = AnalyzeBatch(contents, response, singles)
    /\ bpc' = "done"
    /\ UNCHANGED <<contents, response, storeVars, reportVars, matchVars, inputVars, cycleVars, serviceVars>>

NextBatch == CallAnalyzeBatch

SpecBatch == InitBatch /\ [][NextBatch]_vars

(***************************************************************************)
(* The sentiment store: social posts, their contract links and the         *)
(* sentiment_analysis rows analyze_contract_sentiment persists.            *)
(***************************************************************************)
MaxPosts == 3
MaxFetched == 2
MIN_POSTS_FOR_ANALYSIS == 3
BATCH_SIZE == 5
PostQueryLimit == 200

Posts == 1..MaxPosts
Contracts == {"c1", "c2"}

InSeq(x, s) == \E i \in 1..Len(s) : s[i] = x

\* A fetched post without a post_id.
NoPostId == 0

\* The incoming posts deduplicated by post_id, first occurrences kept; posts
\* without a post_id are dropped.
RECURSIVE UniquePosts(_)
UniquePosts(posts) ==
    IF posts = <<>> THEN <<>>
    ELSE LET front == UniquePosts(SubSeq(posts, 1, Len(posts) - 1))
             pid == posts[Len(posts)]
         IN  IF pid # NoPostId /\ ~InSeq(pid, front) THEN Append(front, pid) ELSE front

\* session.query(SocialPost).filter(SocialPost.post_id == pid): the rows of a table.
RowsWithPostId(table, pid) == {r \in BagToSet(table) : r.post_id = pid}

\* contract_id not in [str(c) for c in existing.related_contracts or []]
NeverLinked(row, c) == FALSE
AlreadyLinked(row, c) == InSeq(c, row.related_contracts)

\* One pass of the loop of _store_social_posts when the store raises no error:
\* the first row with the post id gets the contract appended unless it is linked
\* already; without such a row a new one is inserted and flushed, the contract
\* its only link.
StorePost(table, pid, c) ==
    IF RowsWithPostId(table, pid) # {}
    THEN LET existing == CHOOSE r \in RowsWithPostId(table, pid) : TRUE
         IN  IF AlreadyLinked(existing, c) THEN table
             ELSE (table (-) SetToBag({existing}))
                    (+) SetToBag({[existing EXCEPT !.related_contracts = Append(@, c)]})
    ELSE table (+) SetToBag({[post_id |-> pid, related_contracts |-> <<c>>]})

\* The loop over unique_posts and the commit.
RECURSIVE StorePosts(_, _, _)
StorePosts(table, unique, c) ==
    IF unique = <<>> THEN table
    ELSE StorePosts(StorePost(table, Head(unique), c), Tail(unique), c)

\* related_contracts of the post with the id in social_posts (<<>>: no such post).
RelatedContracts(pid) ==
    IF RowsWithPostId(socialPosts, pid) = {} THEN <<>>
    ELSE (CHOOSE r \in RowsWithPostId(socialPosts, pid) : TRUE).related_contracts

RECURSIVE DescSeq(_)
DescSeq(S) ==
    IF S = {} THEN <<>>
    ELSE LET m == CHOOSE x \in S : \A y \in S : y <= x IN <<m>> \o DescSeq(S \ {m})

\* The posts of a contract, latest first (a post's id is its posting order).
ContractPosts(c) ==
    LET all == DescSeq({p \in Posts : InSeq(c, RelatedContracts(p))})
    IN  SubSeq(all, 1, Min(PostQueryLimit, Len(all)))

AnalyzedIds(c) == {r.post_id : r \in {x \in BagToSet(sentimentStore) : x.contract_id = c}}

PostsToAnalyzeAll(c) == ContractPosts(c)
PostsToAnalyze(c) == SelectSeq(ContractPosts(c), LAMBDA p : p \notin AnalyzedIds(c))

SentimentRow(p, c, sent) ==
    [post_id |-> p, contract_id |-> c, sentiment_score |-> sent.score,
     sentiment_label |-> sent.label, confidence |-> sent.confidence, topics |-> sent.topics]

\* What the generative service may answer to a batch of n posts, and to one post.
StoreResponses(n) ==
    {[kind |-> "raise", items |-> <<>>]}
    \cup {[kind |-> "list", items |-> s] : s \in [1..n -> {ItemHigh, ItemLow, ItemNoScore}]}
    \cup {[kind |-> "garbled", items |-> s] : s \in [1..n -> {ItemHigh, ItemLow, ItemBadFrag}]}

StoreSingles ==
    {[kind |-> "raise", items |-> <<>>]}
    \cup {[kind |-> "value", items |-> <<i>>] : i \in {ItemHigh, ItemLow}}

\* Every (returned list, branch) _analyze_batch can give for a batch of n posts.
StoreOutcomes ==
    [n \in 1..Min(MaxPosts, BATCH_SIZE) |->
        {[sentiments |-> AnalyzeBatch(n, r, s), path |-> BatchPath(n, r)] :
            r \in StoreResponses(n), s \in [1..n -> StoreSingles]}]

\* The same for well-formed arrays only: each element a record or a failure.
ArrayOutcomes ==
    [n \in 1..Min(MaxPosts, BATCH_SIZE) |->
        {[sentiments |-> AnalyzeBatch(n, [kind |-> "list", items |-> s], <<>>), path |-> "batch"] :
            s \in [1..n -> {ItemGood, ItemNoScore}]}]

\* Arrays whose elements are records the store accepts or records with a label
\* of more than 20 characters.
RecordOutcomes ==
    [n \in 1..Min(MaxPosts, BATCH_SIZE) |->
        {[sentiments |-> AnalyzeBatch(n, [kind |-> "list", items |-> s], <<>>), path |-> "batch"] :
            s \in [1..n -> {ItemGood, ItemHigh, ItemLongLabel}]}]

BatchesOf(todo) == (Len(todo) + BATCH_SIZE - 1) \div BATCH_SIZE
BatchLen(todo, b) == Min(BATCH_SIZE, Len(todo) - (b - 1) * BATCH_SIZE)

InitStore ==
    /\ InputIdle
    /\ CycleIdle
    /\ ServiceIdle
    /\ socialPosts = EmptyBag
    /\ lastCall = NoCall
    /\ sentimentStore = EmptyBag
    /\ path = "none"
    /\ resent = {}
    /\ skipped = 0
    /\ BatchIdle
    /\ ReportIdle
    /\ MatchIdle

\* The lists of fetched posts _store_social_posts is called with.
\* Lists of distinct posts, each with its id, ordered by id.
DistinctPosts ==
    {posts \in SeqsUpTo(Posts, MaxFetched) \ {<<>>} :
        \A i, j \in 1..Len(posts) : i < j => posts[i] < posts[j]}

\* Those, the lists with a post twice and the lists with a post without an id.
FetchedPosts ==
    DistinctPosts \cup {<<p, p>> : p \in Posts} \cup {<<NoPostId, p>> : p \in Posts}
        \cup {<<NoPostId>>}

\* DataCollectionAgent._store_social_posts(posts, c) meeting no store error, for
\* a list of fetched; observed: the call is recorded in lastCall.
StoreSocialPosts(c, fetched, observed) ==
    /\ \E posts \in fetched :
          /\ socialPosts' = StorePosts(socialPosts, UniquePosts(posts), c)
          /\ lastCall' = IF observed
                         THEN [op |-> "store_social_posts", contract_id |-> c, posts |-> posts,
                               before |-> socialPosts]
                         ELSE lastCall
          /\ observed \/ socialPosts' # socialPosts
    /\ UNCHANGED <<sentimentStore, path, resent, skipped, batchVars, reportVars, matchVars, inputVars, cycleVars, serviceVars>>

\* The loop of _store_social_posts when the insertion of the posts in failing
\* raises: session.rollback() in the handler of the pass ends the transaction
\* of the session, so the session is back at the rows of before the call, and
\* the posts appended to stored_posts so far stay in the list.
RECURSIVE StorePostsRollback(_, _, _, _, _, _)
StorePostsRollback(table, before, unique, c, failing, stored) ==
    IF unique = <<>> THEN [table |-> table, stored_posts |-> stored]
    ELSE LET pid == Head(unique)
         IN  IF RowsWithPostId(table, pid) # {}
             THEN StorePostsRollback(StorePost(table, pid, c), before, Tail(unique), c, failing, stored)
             ELSE IF pid \in failing
             THEN StorePostsRollback(before, before, Tail(unique), c, failing, stored)
             ELSE StorePostsRollback(StorePost(table, pid, c), before, Tail(unique), c, failing,
                                     Append(stored, pid))

\* DataCollectionAgent._store_social_posts(posts, c) where the store rejects the
\* insertion of the posts in failing; the commit after the loop succeeds.
StoreSocialPostsRejecting(c) ==
    /\ \E posts \in DistinctPosts, failing \in SUBSET Posts :
          LET out == StorePostsRollback(socialPosts, socialPosts, UniquePosts(posts), c, failing, <<>>)
          IN  /\ socialPosts' = out.table
              /\ lastCall' = [op |-> "store_social_posts", contract_id |-> c, posts |-> posts,
                              before |-> socialPosts, failing |-> failing,
                              stored_posts |-> out.stored_posts]
    /\ UNCHANGED <<sentimentStore, path, resent, skipped, batchVars, reportVars, matchVars, inputVars, cycleVars, serviceVars>>

\* sentiment_label is a String(20) column: the store rejects a longer value.
LABEL_LENGTH == 20
RowAccepted(row) == Len(row.sentiment_label) <= LABEL_LENGTH

\* SentimentAnalysisAgent.analyze_contract_sentiment(c), lines 264-325: the rows
\* of all batches are added to the session and committed together.  outcomes[n]
\* is what _analyze_batch may return for n posts; dbOk: the store is reachable
\* at the commit; observed: the call is recorded in lastCall.
AnalyzeContractSentiment(c, outcomes, observed) ==
    \E posts \in {ContractPosts(c)}, todo \in {PostsToAnalyze(c)} :
    LET nb == BatchesOf(todo)
    IN  /\ posts # <<>>
        /\ ~(Len(posts) < MIN_POSTS_FOR_ANALYSIS /\ AnalyzedIds(c) = {})
        /\ todo # <<>>
        /\ \E last \in outcomes[BatchLen(todo, nb)], dbOk \in BOOLEAN :
           \E full \in (IF nb > 1 THEN [1..(nb - 1) -> outcomes[BATCH_SIZE]] ELSE {<<>>}) :
              LET o == Append(full, last)
                  sent(i) == o[((i - 1) \div BATCH_SIZE) + 1].sentiments[((i - 1) % BATCH_SIZE) + 1]
                  rows == {SentimentRow(todo[i], c, sent(i)) : i \in {j \in 1..Len(todo) : ~sent(j).isNone}}
                  commitOk == dbOk /\ \A r \in rows : RowAccepted(r)
              IN  /\ sentimentStore' = IF commitOk THEN sentimentStore (+) SetToBag(rows) ELSE sentimentStore
                  /\ path' = last.path
                  /\ lastCall' = IF observed
                                 THEN [op |-> "analyze_contract_sentiment", contract_id |-> c,
                                       added |-> rows,
                                       commit |-> IF commitOk THEN "committed"
                                                  ELSE IF dbOk THEN "rejected" ELSE "db_error"]
                                 ELSE lastCall
        /\ resent' = resent \cup {<<todo[i], c>> : i \in {j \in 1..Len(todo) : todo[j] \in AnalyzedIds(c)}}
        /\ skipped' = Len(posts) - Len(todo)
        /\ UNCHANGED <<socialPosts, batchVars, reportVars, matchVars, inputVars, cycleVars, serviceVars>>

(***************************************************************************)
(* SpecPersist: one contract, every branch of _analyze_batch.              *)
(* SpecStore: two contracts sharing posts, array responses.                *)
(***************************************************************************)
NextPersist ==
    \/ StoreSocialPosts("c1", DistinctPosts, FALSE)
    \/ AnalyzeContractSentiment("c1", StoreOutcomes, FALSE)

SpecPersist == InitStore /\ [][NextPersist]_vars

\* SpecInsert: two contracts, array responses with labels the store rejects.
NextInsert ==
    \/ \E c \in Contracts : StoreSocialPosts(c, DistinctPosts, FALSE)
    \/ \E c \in Contracts : AnalyzeContractSentiment(c, RecordOutcomes, TRUE)

SpecInsert == InitStore /\ [][NextInsert]_vars

\* SpecCollect: _store_social_posts for two contracts, any list of fetched posts.
NextCollect == \E c \in Contracts : StoreSocialPosts(c, FetchedPosts, TRUE)

SpecCollect == InitStore /\ [][NextCollect]_vars

\* SpecReject: _store_social_posts for two contracts with rejected insertions.
NextReject == \E c \in Contracts : StoreSocialPostsRejecting(c)

SpecReject == InitStore /\ [][NextReject]_vars

NextStore ==
    \/ \E c \in Contracts : StoreSocialPosts(c, DistinctPosts, FALSE)
    \/ \E c \in Contracts : AnalyzeContractSentiment(c, ArrayOutcomes, FALSE)

SpecStore == InitStore /\ [][NextStore]_vars

StoredRows == BagToSet(sentimentStore)

\* C3: every persisted sentiment row has sentiment_score in [-1, 1] and
\* confidence in [0, 1], whatever numbers the generative service returned.
PersistedScoresInRange ==
    \A r \in StoredRows :
        /\ -1000 <= r.sentiment_score /\ r.sentiment_score <= 1000
        /\ 0 <= r.confidence /\ r.confidence <= 1000

\* C3 witness: rows from a service score of 1.7 and of -2 are in the store and
\* the last batch went through the single-post fallback.
ClampedRowsWitness ==
    /\ \E r \in StoredRows : r.sentiment_score = 1000 /\ r.confidence = 1000
    /\ \E r \in StoredRows : r.sentiment_score = -1000 /\ r.confidence = 0
    /\ path = "single"

\* C4: every persisted sentiment row has sentiment_label positive, negative or
\* neutral, whatever label string the generative service returned.
PersistedLabelsValid ==
    \A r \in StoredRows : r.sentiment_label \in {"positive", "negative", "neutral"}

\* C5: the store holds at most one row per (post, contract) pair and no pair
\* that has a row is sent to the generative service again.
RowsOfPair(p, c) == {r \in StoredRows : r.post_id = p /\ r.contract_id = c}

OneRowPerPair ==
    /\ \A p \in Posts, c \in Contracts :
          /\ Cardinality(RowsOfPair(p, c)) <= 1
          /\ \A r \in RowsOfPair(p, c) : CopiesIn(r, sentimentStore) = 1
    /\ resent = {}

\* C5 witness: a contract was analysed again, the posts that had a row were left
\* out of the call, and now every post of both contracts has its one row.
ReanalysedWitness ==
    /\ \A p \in Posts, c \in Contracts : InSeq(c, RelatedContracts(p)) /\ RowsOfPair(p, c) # {}
    /\ skipped > 0

\* C19: when the sentiment records of a contract's posts are inserted and the
\* store rejects one of them, the other records of that contract's batches are
\* still persisted.
RejectedRecordKeepsOthers ==
    (lastCall.op = "analyze_contract_sentiment" /\ lastCall.commit = "rejected") =>
        \A r \in lastCall.added : RowAccepted(r) => r \in StoredRows

IsPrefix(s, t) == Len(s) <= Len(t) /\ SubSeq(t, 1, Len(s)) = s
NoRepeat(s) == \A i, j \in 1..Len(s) : i # j => s[i] # s[j]
GivenIds(posts) == {posts[i] : i \in 1..Len(posts)} \ {NoPostId}

\* C20: after any sequence of _store_social_posts calls that meet no store error
\* each post id is in the store exactly once; the call for contract c leaves c
\* in related_contracts of every post id it was given, once, the earlier links
\* kept; a post id that was in the store is not inserted again.
PostsStoredOnceAndLinked ==
    /\ \A r \in BagToSet(socialPosts) :
          /\ CopiesIn(r, socialPosts) = 1
          /\ Cardinality(RowsWithPostId(socialPosts, r.post_id)) = 1
          /\ r.post_id \in Posts
          /\ NoRepeat(r.related_contracts)
    /\ lastCall.op = "store_social_posts" =>
          /\ \A pid \in GivenIds(lastCall.posts) :
                /\ Cardinality(RowsWithPostId(socialPosts, pid)) = 1
                /\ InSeq(lastCall.contract_id, RelatedContracts(pid))
          /\ \A b \in BagToSet(lastCall.before) :
                /\ IsPrefix(b.related_contracts, RelatedContracts(b.post_id))
                /\ b.post_id \notin GivenIds(lastCall.posts) => b \in BagToSet(socialPosts)
          /\ \A r \in BagToSet(socialPosts) :
                r.post_id \in GivenIds(lastCall.posts)
                    \/ r \in BagToSet(lastCall.before)

\* C20 witness: the call was given the same post id twice, a post that was in
\* the store linked to the other contract, and the store now holds the post
\* once, linked to both.
RelinkedPostWitness ==
    /\ lastCall.op = "store_social_posts"
    /\ Len(lastCall.posts) = 2
    /\ lastCall.posts[1] = lastCall.posts[2]
    /\ lastCall.contract_id = "c2"
    /\ \E b \in BagToSet(lastCall.before) :
          /\ b.post_id = lastCall.posts[1]
          /\ b.related_contracts = <<"c1">>
    /\ RelatedContracts(lastCall.posts[1]) = <<"c1", "c2">>
    /\ Cardinality(RowsWithPostId(socialPosts, lastCall.posts[1])) = 1

\* The post ids the last call of _store_social_posts inserted a row for.
PersistedByCall ==
    {r.post_id : r \in BagToSet(socialPosts)} \ {b.post_id : b \in BagToSet(lastCall.before)}

\* C24: when the insertion of one post of a call of _store_social_posts fails,
\* every other new post of the call, inserted before or after it, is persisted
\* at the commit, and the list the call returns holds exactly the posts the
\* call persisted.
FailedInsertKeepsOthers ==
    (lastCall.op = "store_social_posts"
        /\ \E pid \in GivenIds(lastCall.posts) :
              pid \in lastCall.failing /\ RowsWithPostId(lastCall.before, pid) = {}) =>
        /\ \A pid \in GivenIds(lastCall.posts) :
              (pid \notin lastCall.failing /\ RowsWithPostId(lastCall.before, pid) = {})
                  => RowsWithPostId(socialPosts, pid) # {}
        /\ {lastCall.stored_posts[i] : i \in 1..Len(lastCall.stored_posts)} = PersistedByCall

(***************************************************************************)
(* DataCollectionAgent.collect_market_data for one market: polymarket_prob *)
(* is the current_yes_odds of its contracts row, history the yes_odds of   *)
(* its historical_odds rows.                                               *)
(***************************************************************************)
\* There is no contracts row for the market.
NoContract == -2

\* current_yes_odds of parse_market_to_contract: None (outcomes are token ids or
\* missing) or Decimal(str(price)), 0 when an outcome has no price.
FetchedOdds == {NoOdds, 0, 40, 60, 75}

\* existing.current_yes_odds as the comparison reads it: the loop over
\* contract_data has set the attribute to the fetched value before.
ExistingOddsCompared(stored, fetched) == fetched

\* The historical_odds rows after the market has been handled.
RecordedOdds(stored, fetched, points) ==
    IF stored # NoContract
    THEN IF HasOdds(fetched) /\ fetched # ExistingOddsCompared(stored, fetched)
         THEN Append(points, fetched)
         ELSE points
    ELSE IF HasOdds(fetched) THEN Append(points, fetched) ELSE points

InitMarket ==
    /\ polymarket_prob = NoContract
    /\ history = <<>>
    /\ sentiments = <<>>
    /\ llmFails = {}
    /\ candidates = <<>>
    /\ judgment = [kind |-> "raise", items |-> <<>>]
    /\ confirmed = <<>>
    /\ emitted = <<>>
    /\ mpc = "idle"
    /\ BatchIdle
    /\ StoreIdle
    /\ ReportIdle
    /\ CycleIdle
    /\ ServiceIdle

\* collect_market_data with one market in the fetched list. fetchOk: the fetch
\* and the commit succeed; expired: the market's end date has passed.
CollectMarketData ==
    /\ \E fetched \in FetchedOdds, fetchOk \in BOOLEAN, expired \in BOOLEAN :
          LET kept == fetchOk /\ ~expired
          IN  /\ polymarket_prob' = IF kept THEN fetched ELSE polymarket_prob
              /\ history' = IF kept THEN RecordedOdds(polymarket_prob, fetched, history)
                            ELSE history
              /\ lastCall' = [op |-> "collect_market_data", stored |-> polymarket_prob,
                              fetched |-> fetched, points |-> history, updated |-> kept]
    /\ UNCHANGED <<socialPosts, sentimentStore, path, resent, skipped>>
    /\ UNCHANGED <<candidates, judgment, confirmed, emitted, mpc, sentiments, llmFails>>
    /\ UNCHANGED <<batchVars, reportVars, cycleVars, serviceVars>>

NextMarket == CollectMarketData

SpecMarket == InitMarket /\ [][NextMarket]_vars

\* C21: for a contract already in the store a collection cycle appends one
\* historical odds point carrying the fetched odds if and only if the fetched
\* yes-odds is present and differs from the yes-odds stored before the update;
\* with equal odds no point is appended.
PointAppendedIffOddsChanged ==
    (lastCall.op = "collect_market_data" /\ lastCall.updated /\ lastCall.stored # NoContract) =>
        history = IF lastCall.fetched # NoOdds /\ lastCall.fetched # lastCall.stored
                  THEN Append(lastCall.points, lastCall.fetched)
                  ELSE lastCall.points

(***************************************************************************)
(* PolymarketAPI._make_request.  request.attempt is the loop variable,     *)
(* request.sent the session.get calls made, request.wire the HTTP requests *)
(* the session's adapter sent for them, request.retries the retries the    *)
(* adapter made within the current session.get, request.slept the backoffs *)
(* slept, in seconds.                                                      *)
(***************************************************************************)
MAX_429_RETRIES == 5
BACKOFF_BASE_SECONDS == 60
\* Retry(total=3, status_forcelist=[500, 502, 503, 504]) mounted on the session
RETRY_TOTAL == 3

RECURSIVE Pow2(_)
Pow2(n) == IF n = 0 THEN 1 ELSE 2 * Pow2(n - 1)

BackoffLinear(attempt) == BACKOFF_BASE_SECONDS * (attempt + 1)
\* backoff = self._429_backoff_base_seconds * (2 ** attempt)
Backoff(attempt) == BACKOFF_BASE_SECONDS * Pow2(attempt)

\* What one HTTP request may meet: a response with the status, or no response.
Outcomes == {"200", "429", "404", "503", "timeout"}
\* The outcomes the mounted Retry sends the request again for.
AdapterRetries == {"503", "timeout"}

InitRequest ==
    /\ BatchIdle
    /\ StoreIdle
    /\ ReportIdle
    /\ MatchIdle
    /\ InputIdle
    /\ CycleIdle
    /\ ServiceIdle

\* _make_request is entered: attempt 0, the first session.get is made.
MakeRequest ==
    /\ request.pc = "idle"
    /\ request' = [NoRequest EXCEPT !.pc = "get", !.sent = 1]
    /\ UNCHANGED <<searchFailed, config, cycle, monitor>>
    /\ UNCHANGED <<batchVars, storeVars, reportVars, matchVars, inputVars, cycleVars>>

\* The adapter sends one HTTP request of the current session.get and the loop
\* acts on what comes back.
SendRequest ==
    /\ request.pc = "get"
    /\ \E outcome \in Outcomes :
          LET r == [request EXCEPT !.wire = @ + 1, !.last = outcome]
          IN  request' =
                 IF outcome \in AdapterRetries
                 THEN IF request.retries < RETRY_TOTAL
                      THEN [r EXCEPT !.retries = @ + 1]
                      ELSE [r EXCEPT !.pc = "raised"]
                 ELSE IF outcome = "429"
                 THEN IF request.attempt < MAX_429_RETRIES
                      THEN [r EXCEPT !.slept = Append(@, Backoff(request.attempt)),
                                     !.attempt = @ + 1, !.sent = @ + 1, !.retries = 0]
                      ELSE [r EXCEPT !.pc = "raised"]
                 ELSE IF outcome = "200" THEN [r EXCEPT !.pc = "returned"]
                 ELSE [r EXCEPT !.pc = "raised"]
    /\ UNCHANGED <<searchFailed, config, cycle, monitor>>
    /\ UNCHANGED <<batchVars, storeVars, reportVars, matchVars, inputVars, cycleVars>>

NextRequest == MakeRequest \/ SendRequest

SpecRequest == InitRequest /\ [][NextRequest]_vars

\* C25 as stated: _make_request sends at most 6 requests per call and any
\* outcome of a request other than a 429 or a success raises at once, without
\* a retry.
AtMostSixRequestsNoOtherRetry ==
    /\ request.wire <= 6
    /\ request.last \notin {"none", "200", "429"} => request.pc = "raised"

\* C25 amended: _make_request makes at most 6 session.get calls, each of at
\* most 4 HTTP requests, so a call ends after at most 24 requests; a 429 on
\* attempts 0 to 4 is followed by a backoff of 60 * 2^attempt seconds and one
\* more session.get, a 429 on the sixth raises; a 5xx response or a timeout is
\* sent again by the session's adapter up to 3 times before it raises; any
\* other error status raises at once.
BoundedBackoffAndAdapterRetries ==
    /\ request.sent <= 6
    /\ request.wire <= request.sent * 4
    /\ request.pc = "get" => request.wire < 24
    /\ request.pc # "idle" => request.sent = request.attempt + 1
    /\ Len(request.slept) = request.attempt
    /\ \A i \in 1..Len(request.slept) : request.slept[i] = 60 * Pow2(i - 1)
    /\ request.pc = "returned" => request.last = "200"
    /\ request.pc = "raised" =>
          \/ request.last = "429" /\ request.attempt = 5
          \/ request.last = "404"
          \/ request.last \in {"503", "timeout"} /\ request.retries = 3
    /\ (request.pc = "get" /\ request.last \in {"503", "timeout"}) => request.retries \in 1..3

\* C25 witness: five 429 responses were backed off, the sixth raised.
SixthRateLimitRaisesWitness ==
    /\ request.pc = "raised"
    /\ request.last = "429"
    /\ request.sent = 6
    /\ request.slept = <<60, 120, 240, 480, 960>>

(***************************************************************************)
(* config.py: get_settings and reload_settings over the module global      *)
(* _settings (config.cached).  validated marks a Settings object on which  *)
(* validate_required_services ran to its end.                              *)
(***************************************************************************)
MaxCalls == 4

Providers == {"openai", "ollama", "gemini"}

\* Settings() read from the environment; no field is checked against a list.
LoadSettings(env) ==
    [isNone |-> FALSE, llm_provider |-> env.llm_provider, has_key |-> env.has_key,
     enable_twitter |-> env.enable_twitter,
     has_twitter_credentials |-> env.has_twitter_credentials, validated |-> FALSE]

\* validate_required_services raises ValueError.
ValidationRaises(s) ==
    \/ s.llm_provider = "openai" /\ ~s.has_key
    \/ s.llm_provider \notin {"openai", "ollama"}

\* validate_required_services returns: services without credentials are disabled.
Validated(s) ==
    [s EXCEPT !.enable_twitter = @ /\ s.has_twitter_credentials, !.validated = TRUE]

\* get_settings() on the global g: the new global, and what the call gives.
GetSettingsFrom(g, env) ==
    IF g.isNone
    THEN LET loaded == LoadSettings(env)
         IN  IF ValidationRaises(loaded)
             THEN [cached |-> loaded, last |-> "raised", returned |-> NoneSettings]
             ELSE [cached |-> Validated(loaded), last |-> "returned", returned |-> Validated(loaded)]
    ELSE [cached |-> g, last |-> "returned", returned |-> g]

InitConfig ==
    /\ BatchIdle
    /\ StoreIdle
    /\ ReportIdle
    /\ MatchIdle
    /\ InputIdle
    /\ CycleIdle
    /\ request = NoRequest
    /\ searchFailed = {}
    /\ cycle = NoCycle
    /\ monitor = NoMonitor
    /\ \E p \in Providers, k \in BOOLEAN, t \in BOOLEAN, c \in BOOLEAN :
          config = [NoConfig EXCEPT !.env = [llm_provider |-> p, has_key |-> k,
                                             enable_twitter |-> t,
                                             has_twitter_credentials |-> c]]

GetSettings ==
    /\ config.calls < MaxCalls
    /\ LET out == GetSettingsFrom(config.cached, config.env)
       IN  config' = [config EXCEPT !.cached = out.cached, !.last = out.last,
                                    !.returned = out.returned, !.calls = @ + 1]
    /\ UNCHANGED <<request, searchFailed, cycle, monitor>>
    /\ UNCHANGED <<batchVars, storeVars, reportVars, matchVars, inputVars, cycleVars>>

\* reload_settings: _settings = None, then get_settings().
ReloadSettings ==
    /\ config.calls < MaxCalls
    /\ LET out == GetSettingsFrom(NoneSettings, config.env)
       IN  config' = [config EXCEPT !.cached = out.cached, !.last = out.last,
                                    !.returned = out.returned, !.calls = @ + 1]
    /\ UNCHANGED <<request, searchFailed, cycle, monitor>>
    /\ UNCHANGED <<batchVars, storeVars, reportVars, matchVars, inputVars, cycleVars>>

NextConfig == GetSettings \/ ReloadSettings

SpecConfig == InitConfig /\ [][NextConfig]_vars

\* C29: while the configured provider is invalid every call of get_settings
\* raises the configuration error, and no call returns a Settings object that
\* did not pass validation.
InvalidProviderAlwaysRaises ==
    /\ (config.calls > 0 /\ config.env.llm_provider \notin {"openai", "ollama"})
          => config.last = "raised"
    /\ config.last = "returned" => config.returned.validated

(***************************************************************************)
(* ReportingAgent: fetch_recent_gaps, rank_gaps, run.                      *)
(* composite_score is kept times 200: 140 * confidence + 3 * min(edge, 20  *)
(* percent), the edge in hundredths of a percent.                          *)
(***************************************************************************)
MaxGaps == 3
MaxDisplay == 2
NoEdge == -1

GapTypes == {"sentiment_mismatch", "arbitrage"}

\* (confidence_score, edge_percentage) of the rows the store may hold.
GapSamples ==
    {[confidence_score |-> 80, edge_percentage |-> 600],
     [confidence_score |-> 65, edge_percentage |-> 1300],
     [confidence_score |-> 65, edge_percentage |-> 2000],
     [confidence_score |-> 70, edge_percentage |-> 0]}

SamePair(g, h) == g.contract_id = h.contract_id /\ g.gap_type = h.gap_type

\* The filter of the window subquery: unresolved, confidence at least the minimum.
Qualifying == {g \in {gapStore[i] : i \in 1..Len(gapStore)} :
                  ~g.resolved /\ g.confidence_score >= settings.min_confidence_score}

\* rn = 1 of row_number() over (partition by contract_id, gap_type order by
\* detected_at desc); the rows of the model have distinct detected_at.
EarliestPerPair == {g \in Qualifying : \A h \in Qualifying : SamePair(g, h) => h.detected_at >= g.detected_at}
LatestPerPair == {g \in Qualifying : \A h \in Qualifying : SamePair(g, h) => h.detected_at <= g.detected_at}

\* .limit(limit * 2) without an order: any limit * 2 of the rn = 1 rows.
GapIdChoices ==
    LET k == Min(2 * settings.max_gaps_to_display, Cardinality(LatestPerPair))
    IN  {ids \in SUBSET LatestPerPair : Cardinality(ids) = k}

\* order_by(confidence_score.desc(), detected_at.desc())
RECURSIVE SqlOrder(_)
SqlOrder(S) ==
    IF S = {} THEN <<>>
    ELSE LET top == CHOOSE g \in S : \A h \in S :
                        \/ h.confidence_score < g.confidence_score
                        \/ h.confidence_score = g.confidence_score /\ h.detected_at <= g.detected_at
         IN  <<top>> \o SqlOrder(S \ {top})

\* float(gap.edge_percentage) if gap.edge_percentage else None
FormatEdge(e) == IF e = NoEdge \/ e = 0 THEN NoEdge ELSE e

\* fetch_recent_gaps for the gap ids the first query returned.
FetchRecentGaps(ids) ==
    LET ordered == SqlOrder(ids)
        gaps == SubSeq(ordered, 1, Min(settings.max_gaps_to_display, Len(ordered)))
    IN  [i \in 1..Len(gaps) |-> [gaps[i] EXCEPT !.edge_percentage = FormatEdge(@)]]

CompositeScore(gap) == 140 * gap.confidence_score + 3 * Min(gap.edge_percentage, 2000)

\* min(None, 20) raises TypeError.
RankRaises(gaps) == \E i \in 1..Len(gaps) : gaps[i].edge_percentage = NoEdge

\* sorted(gaps, key=composite_score, reverse=True): stable, ties keep their order.
RECURSIVE SortedByComposite(_)
SortedByComposite(gaps) ==
    IF gaps = <<>> THEN <<>>
    ELSE LET rest == SortedByComposite(SubSeq(gaps, 1, Len(gaps) - 1))
             x == gaps[Len(gaps)]
             k == Cardinality({i \in 1..Len(rest) : CompositeScore(rest[i]) >= CompositeScore(x)})
         IN  SubSeq(rest, 1, k) \o <<x>> \o SubSeq(rest, k + 1, Len(rest))

WithScores(gaps) ==
    [i \in 1..Len(gaps) |->
        [id |-> gaps[i].id, contract_id |-> gaps[i].contract_id, gap_type |-> gaps[i].gap_type,
         confidence_score |-> gaps[i].confidence_score, edge_percentage |-> gaps[i].edge_percentage,
         detected_at |-> gaps[i].detected_at, composite_score |-> CompositeScore(gaps[i]), rank |-> i]]

RankGapsUnsorted(gaps) == WithScores(gaps)
RankGaps(gaps) == WithScores(SortedByComposite(gaps))

\* ReportingAgent.run for the ids of the first query; dbOk: the queries succeeded.
RunReport(ids, dbOk) ==
    IF ~dbOk \/ ids = {} THEN [status |-> "ok", gaps |-> <<>>]
    ELSE IF RankRaises(FetchRecentGaps(ids)) THEN [status |-> "raised", gaps |-> <<>>]
    ELSE [status |-> "ok", gaps |-> RankGaps(FetchRecentGaps(ids))]

InitReport ==
    /\ InputIdle
    /\ CycleIdle
    /\ ServiceIdle
    /\ settings \in {[DefaultSettings EXCEPT !.max_gaps_to_display = n] : n \in 1..MaxDisplay}
    /\ gapStore = <<>>
    /\ report = NoReport
    /\ BatchIdle
    /\ StoreIdle
    /\ MatchIdle

\* analyze_all_contracts, lines 725-738: a candidate whose confidence reaches the
\* minimum becomes a row; detected_at is the time of the insert.
PersistGap ==
    /\ Len(gapStore) < MaxGaps
    /\ \E c \in Contracts, t \in GapTypes, sample \in GapSamples :
          /\ sample.confidence_score >= settings.min_confidence_score
          /\ gapStore' = Append(gapStore,
                [id |-> Len(gapStore) + 1, contract_id |-> c, gap_type |-> t,
                 confidence_score |-> sample.confidence_score,
                 edge_percentage |-> sample.edge_percentage,
                 detected_at |-> Len(gapStore) + 1, resolved |-> FALSE])
    /\ report' = NoReport
    /\ UNCHANGED <<settings, batchVars, storeVars, matchVars, inputVars, cycleVars, serviceVars>>

ReportingRun ==
    /\ \E ids \in GapIdChoices, dbOk \in BOOLEAN : report' = RunReport(ids, dbOk)
    /\ UNCHANGED <<settings, gapStore, batchVars, storeVars, matchVars, inputVars, cycleVars, serviceVars>>

NextReport == PersistGap \/ ReportingRun

SpecReport == InitReport /\ [][NextReport]_vars

\* C30: rank_gaps, and with it a reporting run, completes without an error and
\* returns the gaps fetch_recent_gaps gave it with ranks 1 to n, for every list
\* fetch_recent_gaps can return, rows with edge_percentage 0 or NULL included.
RankCompletesForEveryFetch ==
    report.status # "none" =>
        /\ report.status = "ok"
        /\ \A i \in 1..Len(report.gaps) : report.gaps[i].rank = i

(***************************************************************************)
(* main.py: PolymarketGapDetector.run_single_cycle and run_continuous.     *)
(* cycle.ran lists the stages called, cycle.keys the counts in the results *)
(* dict, cycle.failed the stages inside which a post, a batch, a detector  *)
(* or a query failed and was caught by the stage.                          *)
(***************************************************************************)
MaxCycles == 3

\* The rows detected_gaps may hold when a cycle starts.
StoredAtStart ==
    {<<>>} \cup
    {<<[id |-> 1, contract_id |-> "c1", gap_type |-> "arbitrage",
        confidence_score |-> 70, edge_percentage |-> e, detected_at |-> 1, resolved |-> FALSE]>> :
        e \in {0, 600}}

ItemFailureEscapes(itemFailed) == itemFailed
\* The agents catch the failure of a post, a batch, a detector or a query in
\* their own try/except: run() of the stage returns.
ItemFailureRaises(itemFailed) == FALSE

\* The stage returned: its counts are put in results.
StageDone(c, stage, next, itemFailed) ==
    [c EXCEPT !.ran = Append(@, stage), !.keys = @ \cup {stage},
              !.failed = IF itemFailed THEN @ \cup {stage} ELSE @, !.pc = next]

\* The stage raised: except Exception appends to results['errors'], the dict
\* is returned with success False.
StageRaised(c, stage) ==
    [c EXCEPT !.ran = Append(@, stage), !.errors = @ + 1, !.pc = "returned"]

StageResult(c, stage, next, itemFailed) ==
    IF ItemFailureRaises(itemFailed) THEN StageRaised(c, stage)
    ELSE StageDone(c, stage, next, itemFailed)

InitSingleCycle ==
    /\ BatchIdle
    /\ StoreIdle
    /\ MatchIdle
    /\ InputIdle
    /\ CycleIdle
    /\ request = NoRequest
    /\ searchFailed = {}
    /\ config = NoConfig
    /\ cycle = NoCycle
    /\ monitor = NoMonitor
    /\ settings = DefaultSettings
    /\ gapStore \in StoredAtStart
    /\ report = NoReport

\* run_single_cycle is entered: results = {success: False, errors: []}.
RunSingleCycle ==
    /\ monitor.pc = "off"
    /\ cycle.pc \in {"idle", "returned"}
    /\ cycle' = [NoCycle EXCEPT !.pc = "collection"]
    /\ UNCHANGED <<request, searchFailed, config, monitor>>
    /\ UNCHANGED <<batchVars, storeVars, reportVars, matchVars, inputVars, cycleVars>>

\* Step 1: data_collector.run().
RunCollection ==
    /\ cycle.pc = "collection"
    /\ \E itemFailed \in BOOLEAN : cycle' = StageResult(cycle, "collection", "sentiment", itemFailed)
    /\ UNCHANGED <<request, searchFailed, config, monitor>>
    /\ UNCHANGED <<batchVars, storeVars, reportVars, matchVars, inputVars, cycleVars>>

\* Step 2: sentiment_analyzer.run().
RunSentiment ==
    /\ cycle.pc = "sentiment"
    /\ \E itemFailed \in BOOLEAN : cycle' = StageResult(cycle, "sentiment", "gaps", itemFailed)
    /\ UNCHANGED <<request, searchFailed, config, monitor>>
    /\ UNCHANGED <<batchVars, storeVars, reportVars, matchVars, inputVars, cycleVars>>

\* Step 3: gap_detector.run(); a candidate the detectors found may be stored.
RunGapDetection ==
    /\ cycle.pc = "gaps"
    /\ \E itemFailed \in BOOLEAN, stored \in BOOLEAN :
          /\ cycle' = StageResult(cycle, "gaps", "report", itemFailed)
          /\ gapStore' =
                IF stored /\ Len(gapStore) < MaxGaps
                THEN Append(gapStore,
                        [id |-> Len(gapStore) + 1, contract_id |-> "c2",
                         gap_type |-> "sentiment_mismatch", confidence_score |-> 80,
                         edge_percentage |-> 1300, detected_at |-> Len(gapStore) + 1,
                         resolved |-> FALSE])
                ELSE gapStore
    /\ UNCHANGED <<settings, report, request, searchFailed, config, monitor>>
    /\ UNCHANGED <<batchVars, storeVars, matchVars, inputVars, cycleVars>>

\* Step 4: reporter.run(), then success = True and the dict is returned.
RunReporting ==
    /\ cycle.pc = "report"
    /\ \E ids \in GapIdChoices, dbOk \in BOOLEAN :
          LET r == RunReport(ids, dbOk)
          IN  /\ report' = r
              /\ cycle' = IF r.status = "raised" \/ ItemFailureRaises(~dbOk)
                          THEN StageRaised(cycle, "report")
                          ELSE [StageDone(cycle, "report", "returned", ~dbOk)
                                   EXCEPT !.success = TRUE]
    /\ UNCHANGED <<settings, gapStore, request, searchFailed, config, monitor>>
    /\ UNCHANGED <<batchVars, storeVars, matchVars, inputVars, cycleVars>>

NextSingleCycle ==
    RunSingleCycle \/ RunCollection \/ RunSentiment \/ RunGapDetection \/ RunReporting

SpecSingleCycle == InitSingleCycle /\ [][NextSingleCycle]_vars

AfterCycleStopOnError(success) == IF success THEN "sleeping" ELSE "cleanup"
\* Both branches of "if results['success']" only log; time.sleep follows.
AfterCycle(success) == "sleeping"

InitContinuous == InitSingleCycle

\* run_continuous is entered: cycle_count = 0, the loop begins.
RunContinuous ==
    /\ monitor.pc = "off"
    /\ cycle.pc = "idle"
    /\ monitor' = [monitor EXCEPT !.pc = "loop"]
    /\ UNCHANGED <<request, searchFailed, config, cycle>>
    /\ UNCHANGED <<batchVars, storeVars, reportVars, matchVars, inputVars, cycleVars>>

\* The top of "while True": cycle_count += 1 and run_single_cycle is called.
LoopStartCycle ==
    /\ monitor.pc = "loop"
    /\ monitor.cycle_count < MaxCycles
    /\ monitor' = [monitor EXCEPT !.pc = "running", !.cycle_count = @ + 1, !.slept = FALSE]
    /\ cycle' = [NoCycle EXCEPT !.pc = "collection"]
    /\ UNCHANGED <<request, searchFailed, config>>
    /\ UNCHANGED <<batchVars, storeVars, reportVars, matchVars, inputVars, cycleVars>>

\* run_single_cycle returned to the loop: the outcome is logged.
CycleReturns ==
    /\ monitor.pc = "running"
    /\ cycle.pc = "returned"
    /\ monitor' = [monitor EXCEPT !.pc = AfterCycle(cycle.success),
                                  !.failures = IF cycle.success THEN @ ELSE @ + 1]
    /\ UNCHANGED <<request, searchFailed, config, cycle>>
    /\ UNCHANGED <<batchVars, storeVars, reportVars, matchVars, inputVars, cycleVars>>

\* time.sleep(polling_interval) returned.
SleepDone ==
    /\ monitor.pc = "sleeping"
    /\ monitor' = [monitor EXCEPT !.pc = "loop", !.slept = TRUE]
    /\ UNCHANGED <<request, searchFailed, config, cycle>>
    /\ UNCHANGED <<batchVars, storeVars, reportVars, matchVars, inputVars, cycleVars>>

\* KeyboardInterrupt, in the cycle or in the sleep: it passes the except
\* Exception of run_single_cycle and reaches the handler of run_continuous.
LoopInterrupted ==
    /\ monitor.pc \in {"loop", "running", "sleeping"}
    /\ monitor' = [monitor EXCEPT !.pc = "cleanup", !.interrupted = TRUE]
    /\ cycle' = IF cycle.pc \in {"idle", "returned"} THEN cycle ELSE [cycle EXCEPT !.pc = "aborted"]
    /\ UNCHANGED <<request, searchFailed, config>>
    /\ UNCHANGED <<batchVars, storeVars, reportVars, matchVars, inputVars, cycleVars>>

\* cleanup(): db_manager.close().
Cleanup ==
    /\ monitor.pc = "cleanup"
    /\ monitor' = [monitor EXCEPT !.pc = "stopped", !.closed = TRUE]
    /\ UNCHANGED <<request, searchFailed, config, cycle>>
    /\ UNCHANGED <<batchVars, storeVars, reportVars, matchVars, inputVars, cycleVars>>

NextContinuous ==
    \/ RunContinuous
    \/ LoopStartCycle
    \/ RunCollection
    \/ RunSentiment
    \/ RunGapDetection
    \/ RunReporting
    \/ CycleReturns
    \/ SleepDone
    \/ LoopInterrupted
    \/ Cleanup

SpecContinuous == InitContinuous /\ [][NextContinuous]_vars

CycleInProgress == cycle.pc \in {"collection", "sentiment", "gaps", "report"}

\* What holds of the loop in every state.
MonitorInvariant ==
    /\ monitor.pc \in {"cleanup", "stopped"} => monitor.interrupted
    /\ monitor.pc = "stopped" => monitor.closed
    /\ (monitor.failures > 0 /\ ~monitor.interrupted) => monitor.pc \in {"loop", "running", "sleeping"}
    /\ (monitor.pc = "loop" /\ monitor.cycle_count > 0) => monitor.slept
    /\ monitor.pc \in {"loop", "sleeping"} => ~CycleInProgress
    /\ CycleInProgress => monitor.pc = "running"
    /\ monitor.closed => monitor.pc = "stopped"

\* The program is sequential: a step that can be taken is taken, unless the
\* interrupt comes first.
SpecContinuousFair ==
    /\ SpecContinuous
    /\ WF_vars(LoopStartCycle) /\ WF_vars(CycleReturns) /\ WF_vars(SleepDone) /\ WF_vars(Cleanup)
    /\ WF_vars(RunCollection) /\ WF_vars(RunSentiment) /\ WF_vars(RunGapDetection)
    /\ WF_vars(RunReporting)

\* C26: in continuous mode a cycle that ended with errors does not stop the
\* monitoring; after every cycle, failed or not, the loop sleeps the polling
\* interval and the next cycle starts, unless an interrupt comes; no cycle is
\* started while another is in progress; the loop is left only on an interrupt,
\* and cleanup then closes the database connections.
MonitoringOutlivesFailedCycles ==
    /\ []MonitorInvariant
    /\ \A k \in 1..(MaxCycles - 1) :
          (monitor.cycle_count = k) ~> (monitor.interrupted \/ monitor.cycle_count = k + 1)
    /\ monitor.interrupted ~> (monitor.pc = "stopped" /\ monitor.closed)

\* C26 witness: the first cycle ended with an error, the loop slept and a
\* second cycle is in progress.
CycleAfterFailedCycleWitness ==
    /\ monitor.pc = "running"
    /\ monitor.cycle_count = 2
    /\ monitor.failures = 1
    /\ cycle.pc = "sentiment"
    /\ ~monitor.interrupted


Reported == {report.gaps[i] : i \in 1..Len(report.gaps)}

\* C6: the report holds at most one gap per (contract, gap_type), the one with the
\* latest detected_at among the pair's unresolved gaps with confidence at least
\* the minimum, and no row of the store is ever deleted.
LatestWins ==
    \A i \in 1..Len(report.gaps) :
        /\ \A j \in 1..Len(report.gaps) : SamePair(report.gaps[i], report.gaps[j]) => i = j
        /\ \A h \in Qualifying : SamePair(report.gaps[i], h) => h.detected_at <= report.gaps[i].detected_at
        /\ \E h \in Qualifying : h.id = report.gaps[i].id

RowsKept == Len(gapStore') >= Len(gapStore) /\ SubSeq(gapStore', 1, Len(gapStore)) = gapStore

DedupLatestWins == [](LatestWins) /\ [][RowsKept]_vars

\* C6 witness: a pair has an older and a newer row and the newer one is reported.
SupersededWitness ==
    \E g \in Reported : \E h \in Qualifying : SamePair(g, h) /\ h.detected_at < g.detected_at

TopCompositeReported ==
    report.status = "ok" /\ report.gaps # <<>> =>
        /\ Len(report.gaps) = Min(settings.max_gaps_to_display, Cardinality(LatestPerPair))
        /\ \A g \in LatestPerPair :
              (\A r \in Reported : r.id # g.id) =>
                  \A r \in Reported : CompositeScore(g) <= r.composite_score

(***************************************************************************)
(* GapDetectionAgent: _match_markets_with_llm and                          *)
(* detect_cross_market_arbitrage.  Probabilities, edges and the matcher's  *)
(* confidence are in hundredths.                                           *)
(***************************************************************************)
MaxCandidates == 2
MaxJudgments == 2
\* search_markets(search_query, limit=10)
SEARCH_LIMIT == 10
CandidateLimitLoose == SEARCH_LIMIT
CandidateLimit == 8

\* A judgment of the response: a JSON object with index, match and confidence,
\* or another JSON value (form "scalar").
Judgment(form, index, match, confidence) ==
    [form |-> form, index |-> index, match |-> match, confidence |-> confidence]

\* bool(x) of a JSON value; a missing key reads as None.
Truthy(x) ==
    CASE x.t \in {"bool", "num"} -> x.v # 0
      [] x.t = "nan" -> TRUE
      [] x.t = "str" -> x.s # ""
      [] x.t = "list" -> x.l # <<>>
      [] OTHER -> FALSE

\* item.get("confidence", 0) >= 0.6
ConfidenceExc(x) == IF x.t \in {"str", "null", "list"} THEN "TypeError" ELSE "none"
ConfirmsLoose(x) == x.t \in {"num", "bool"} /\ x.v >= 50
ConfidenceConfirms(x) == x.t \in {"num", "bool"} /\ (IF x.t = "bool" THEN 100 * x.v ELSE x.v) >= 60

\* int(item["index"])
ParseInt(s) == CASE s = "1" -> 1 [] s = "2" -> 2 [] s = "3" -> 3 [] OTHER -> 0
IndexExc(x) ==
    CASE x.t = "missing" -> "KeyError"
      [] x.t = "str" -> IF x.s \in {"1", "2", "3"} THEN "none" ELSE "ValueError"
      [] x.t \in {"null", "list"} -> "TypeError"
      [] x.t = "nan" -> "ValueError"
      [] OTHER -> "none"
IndexOf(x) == IF x.t = "str" THEN ParseInt(x.s) ELSE x.v

\* One pass of the loop body over an item: "accept", "skip" or the exception
\* that leaves the loop.
JudgmentOutcome(item, n) ==
    IF item.form # "dict" THEN "AttributeError"
    ELSE IF ~Truthy(item.match) THEN "skip"
    ELSE IF ConfidenceExc(item.confidence) # "none" THEN "skip"
    ELSE IF ~ConfidenceConfirms(item.confidence) THEN "skip"
    ELSE IF IndexExc(item.index) # "none" THEN "skip"
    ELSE IF IndexOf(item.index) - 1 >= 0 /\ IndexOf(item.index) - 1 < n THEN "accept"
    ELSE "skip"

\* candidates[idx].copy() with match_confidence = float(item["confidence"])
ConfirmedMatch(cands, item) ==
    [platform |-> cands[IndexOf(item.index)].platform,
     market_id |-> cands[IndexOf(item.index)].market_id,
     probability |-> cands[IndexOf(item.index)].probability,
     match_confidence |-> IF item.confidence.t = "bool" THEN 100 * item.confidence.v
                          ELSE item.confidence.v]

RECURSIVE CollectMatches(_, _)
CollectMatches(cands, items) ==
    IF items = <<>> THEN <<>>
    ELSE (IF JudgmentOutcome(Head(items), Len(cands)) = "accept"
          THEN <<ConfirmedMatch(cands, Head(items))>> ELSE <<>>)
         \o CollectMatches(cands, Tail(items))

\* _match_markets_with_llm(question, cands) when the service answers resp.
MatchMarketsWithLlm(cands, resp) ==
    IF cands = <<>> THEN <<>>
    ELSE LET cs == SubSeq(cands, 1, Min(CandidateLimit, Len(cands)))
         IN  IF resp.kind \in {"raise", "garbled"} THEN <<>>
             ELSE IF \E i \in 1..Len(resp.items) :
                        JudgmentOutcome(resp.items[i], Len(cs)) = "AttributeError" THEN <<>>
             ELSE CollectMatches(cs, resp.items)

\* The fallback string is a function of the gap type and the market odds.
FallbackExplanation(gap_type, market_odds) == <<"fallback", gap_type, market_odds>>

\* _generate_gap_explanation when the generative call raises (fails) or returns.
ExplanationPropagates(gap_type, market_odds, fails) ==
    IF fails THEN [raised |-> TRUE, text |-> <<>>] ELSE [raised |-> FALSE, text |-> <<"generated">>]
GenerateGapExplanation(gap_type, market_odds, fails) ==
    [raised |-> FALSE,
     text |-> IF fails THEN FallbackExplanation(gap_type, market_odds) ELSE <<"generated">>]

\* edge_factor + match_factor + base_confidence, truncated by int().
ArbitrageConfidence(edge, match_confidence) ==
    (50 * Min(edge, 30) + 9 * match_confidence) \div 30 + 20

ArbitrageGap(prob, match, fails) ==
    [gap_type |-> "arbitrage",
     confidence_score |-> ArbitrageConfidence(Abs(prob - match.probability), match.match_confidence),
     explanation |-> GenerateGapExplanation("arbitrage", prob, fails).text,
     market_odds |-> prob,
     implied_odds |-> match.probability,
     edge_percentage |-> 100 * Abs(prob - match.probability),
     direction |-> IF prob < match.probability THEN "bullish" ELSE "bearish",
     competitor_platform |-> match.platform,
     competitor_market_id |-> match.market_id,
     match_confidence |-> match.match_confidence]

\* The confirmed matches whose edge is not below arbitrage_min_edge.
QualifyingMatches(prob, matches) ==
    SelectSeq(matches, LAMBDA m : Abs(prob - m.probability) >= settings.arbitrage_min_edge)

\* The loop over the confirmed matches; fails: the numbers of the explanation
\* calls (one per qualifying match) whose generative call fails. An exception
\* leaving _generate_gap_explanation reaches the except of the detector.
ArbitrageGaps(prob, matches, fails) ==
    LET kept == QualifyingMatches(prob, matches)
    IN  IF \E i \in 1..Len(kept) : GenerateGapExplanation("arbitrage", prob, i \in fails).raised
        THEN <<>>
        ELSE [i \in 1..Len(kept) |-> ArbitrageGap(prob, kept[i], i \in fails)]

CandidateMarkets ==
    {[platform |-> "kalshi", market_id |-> "k1", probability |-> 70],
     [platform |-> "kalshi", market_id |-> "k2", probability |-> 85],
     [platform |-> "manifold", market_id |-> "m1", probability |-> 55]}

JudgmentItems ==
    {Judgment("dict", Num(1), Bool(TRUE), Num(60)),
     Judgment("dict", Num(1), Bool(TRUE), Num(55)),
     Judgment("dict", Num(2), Bool(TRUE), Num(90)),
     Judgment("dict", Num(2), Bool(FALSE), Num(90)),
     Judgment("dict", Num(1), Bool(TRUE), Num(150)),
     Judgment("dict", Num(3), Bool(TRUE), Num(80)),
     Judgment("dict", Num(0), Bool(TRUE), Num(70)),
     Judgment("dict", Str("2"), Bool(TRUE), Num(75)),
     Judgment("dict", Missing, Bool(TRUE), Num(80)),
     Judgment("dict", Num(1), Bool(TRUE), Str("high")),
     Judgment("dict", Num(1), Missing, Num(90)),
     Judgment("scalar", Missing, Missing, Missing)}

\* What the service may answer: an exception, text that is not JSON, a JSON
\* array, or a single JSON value (wrapped into a list).
Judgments ==
    {[kind |-> "raise", items |-> <<>>], [kind |-> "garbled", items |-> <<>>]}
    \cup {[kind |-> "list", items |-> js] : js \in SeqsUpTo(JudgmentItems, MaxJudgments)}
    \cup {[kind |-> "value", items |-> <<j>>] : j \in JudgmentItems}

InitMatch ==
    /\ InputIdle
    /\ CycleIdle
    /\ ServiceIdle
    /\ polymarket_prob = NoOdds
    /\ candidates \in SeqsUpTo(CandidateMarkets, MaxCandidates)
    /\ judgment \in Judgments
    /\ confirmed = <<>>
    /\ emitted = <<>>
    /\ mpc = "call"
    /\ BatchIdle
    /\ StoreIdle
    /\ ReportIdle

CallMatchMarkets ==
    /\ mpc = "call"
    /\ confirmed' = MatchMarketsWithLlm(candidates, judgment)
    /\ mpc' = "done"
    /\ UNCHANGED <<polymarket_prob, candidates, judgment, emitted, batchVars, storeVars, reportVars, inputVars, cycleVars, serviceVars>>

NextMatch == CallMatchMarkets

SpecMatch == InitMatch /\ [][NextMatch]_vars

\* The judgments of the arbitrage runs: an exception or a JSON array of objects.
ArbitrageJudgments ==
    {[kind |-> "raise", items |-> <<>>]}
    \cup {[kind |-> "list", items |-> js] :
            js \in SeqsUpTo({Judgment("dict", Num(1), Bool(TRUE), Num(60)),
                             Judgment("dict", Num(2), Bool(TRUE), Num(90)),
                             Judgment("dict", Num(2), Bool(FALSE), Num(90)),
                             Judgment("dict", Num(1), Bool(TRUE), Num(150))}, MaxJudgments)}

\* all_candidates: the markets the Kalshi search returned, then those of the
\* Manifold search, no market twice.
SearchResults ==
    {c \in SeqsUpTo(CandidateMarkets, MaxCandidates) :
        /\ \A i, j \in 1..Len(c) : i < j => c[i] # c[j]
        /\ \A i, j \in 1..Len(c) : i < j => ~(c[i].platform = "manifold" /\ c[j].platform = "kalshi")}

InitArbitrage ==
    /\ history = <<>>
    /\ sentiments = <<>>
    /\ llmFails \in SUBSET {1, 2}
    /\ CycleIdle
    /\ request = NoRequest
    /\ searchFailed \in SUBSET {"kalshi", "manifold"}
    /\ MainIdle
    /\ polymarket_prob \in {NoOdds, 0, 20, 50}
    /\ candidates \in SearchResults
    /\ judgment \in ArbitrageJudgments
    /\ confirmed = <<>>
    /\ emitted = <<>>
    /\ mpc = "call"
    /\ settings \in {[DefaultSettings EXCEPT !.enable_arbitrage_detection = b] : b \in BOOLEAN}
    /\ gapStore = <<>>
    /\ report = NoReport
    /\ BatchIdle
    /\ StoreIdle

\* search_markets of a platform: the parsed markets, or [] when the request
\* failed (_make_request logs the error and returns None).
SearchMarkets(platform) ==
    IF platform \in searchFailed THEN <<>>
    ELSE SelectSeq(candidates, LAMBDA m : m.platform = platform)

\* all_candidates: the Kalshi results extended by the Manifold results.
AllCandidates == SearchMarkets("kalshi") \o SearchMarkets("manifold")

\* detect_cross_market_arbitrage; dbOk: the contract query succeeded, queryOk:
\* _extract_search_query gave at least three characters.
DetectCrossMarketArbitrage ==
    /\ mpc = "call"
    /\ \E dbOk \in BOOLEAN, queryOk \in BOOLEAN :
          IF /\ settings.enable_arbitrage_detection
             /\ dbOk /\ queryOk
             /\ HasOdds(polymarket_prob)
             /\ AllCandidates # <<>>
          THEN /\ confirmed' = MatchMarketsWithLlm(AllCandidates, judgment)
               /\ emitted' = ArbitrageGaps(polymarket_prob, confirmed', llmFails)
          ELSE /\ confirmed' = <<>>
               /\ emitted' = <<>>
    /\ mpc' = "done"
    /\ UNCHANGED <<polymarket_prob, candidates, judgment, settings, gapStore, report, batchVars, storeVars, inputVars, cycleVars, serviceVars>>

NextArbitrage == DetectCrossMarketArbitrage

KalshiIds == <<"k1", "k2", "k3", "k4", "k5", "k6", "k7", "k8", "k9", "k10">>

\* n Kalshi results.
KalshiResults(n) ==
    [i \in 1..n |-> [platform |-> "kalshi", market_id |-> KalshiIds[i], probability |-> 60 + i]]

ManifoldResults ==
    {<<[platform |-> "manifold", market_id |-> "m1", probability |-> 55]>>,
     <<[platform |-> "manifold", market_id |-> "m1", probability |-> 55],
       [platform |-> "manifold", market_id |-> "m2", probability |-> 45]>>}

\* Judgments confirming the first candidate and candidates around the eighth.
TopEightJudgments ==
    {[kind |-> "raise", items |-> <<>>]}
    \cup {[kind |-> "list", items |-> js] :
            js \in SeqsUpTo({Judgment("dict", Num(i), Bool(TRUE), Num(90)) : i \in {1, 8, 9, 10}},
                            MaxJudgments)}

\* SpecTopEight: the searches return about eight Kalshi markets and one or two
\* Manifold markets.
InitTopEight ==
    /\ history = <<>>
    /\ sentiments = <<>>
    /\ llmFails = {}
    /\ CycleIdle
    /\ request = NoRequest
    /\ searchFailed \in SUBSET {"kalshi", "manifold"}
    /\ MainIdle
    /\ polymarket_prob = 20
    /\ candidates \in {KalshiResults(n) \o ms :
                          n \in 7..(SEARCH_LIMIT - 1),
                          ms \in ManifoldResults}
    /\ judgment \in TopEightJudgments
    /\ confirmed = <<>>
    /\ emitted = <<>>
    /\ mpc = "call"
    /\ settings = DefaultSettings
    /\ gapStore = <<>>
    /\ report = NoReport
    /\ BatchIdle
    /\ StoreIdle

SpecTopEight == InitTopEight /\ [][NextArbitrage]_vars

SpecArbitrage == InitArbitrage /\ [][NextArbitrage]_vars

JudgedItems == {judgment.items[i] : i \in 1..Len(judgment.items)}

\* The judgment says match = true with a confidence of at least 0.6.
JudgedMatch(item) ==
    /\ item.form = "dict"
    /\ item.match = Bool(TRUE)
    /\ item.confidence.t = "num"
    /\ item.confidence.v >= 60

\* The judgment names one of the candidates.
NamesCandidate(item) ==
    /\ IndexExc(item.index) = "none"
    /\ IndexOf(item.index) \in 1..Min(CandidateLimit, Len(candidates))

EmittedConfidenceInRange ==
    \A i \in 1..Len(emitted) : emitted[i].confidence_score \in 0..100

\* One candidate for each confirmed match whose edge is at least
\* arbitrage_min_edge, in the order of the matches, and none for the others.
OneCandidatePerQualifyingMatch ==
    LET kept == QualifyingMatches(polymarket_prob, confirmed)
    IN  /\ Len(emitted) = Len(kept)
        /\ \A i \in 1..Len(kept) :
              /\ emitted[i].competitor_platform = kept[i].platform
              /\ emitted[i].competitor_market_id = kept[i].market_id
              /\ emitted[i].edge_percentage = 100 * Abs(polymarket_prob - kept[i].probability)
              /\ emitted[i].edge_percentage >= 100 * settings.arbitrage_min_edge

\* C15: in one pass over one contract detect_cross_market_arbitrage emits exactly
\* one candidate for each confirmed match whose |polymarket_prob - competitor_prob|
\* is at least arbitrage_min_edge and none for the other matches, and at most one
\* candidate per competitor platform.
OneCandidatePerMatchAndPlatform ==
    mpc = "done" =>
        /\ OneCandidatePerQualifyingMatch
        /\ \A i, j \in 1..Len(emitted) :
              i # j => emitted[i].competitor_platform # emitted[j].competitor_platform

\* C22: if a competitor search call fails while the arbitrage detector processes
\* a contract, the detector aborts for that contract and emits no arbitrage
\* candidate in that pass.
FailedSearchEmitsNothing ==
    (mpc = "done" /\ searchFailed # {}) => emitted = <<>>

SameMarket(a, b) ==
    a.platform = b.platform /\ a.market_id = b.market_id /\ a.probability = b.probability

\* C28: the candidates judged are the first 8 of the Kalshi results followed by
\* the Manifold results and a confirmed match is one of these 8; when Kalshi
\* returns 8 or more candidates no Manifold market becomes a confirmed match or
\* produces an arbitrage candidate.
ConfirmedAmongFirstEight ==
    mpc = "done" =>
        LET all == SearchMarkets("kalshi") \o SearchMarkets("manifold")
        IN  /\ \A k \in 1..Len(confirmed) :
                  \E i \in 1..Min(8, Len(all)) : SameMarket(confirmed[k], all[i])
            /\ Len(SearchMarkets("kalshi")) >= 8 =>
                  /\ \A k \in 1..Len(confirmed) : confirmed[k].platform # "manifold"
                  /\ \A g \in 1..Len(emitted) : emitted[g].competitor_platform # "manifold"

\* C28 witness: Kalshi returned 8 markets, the matcher confirmed candidates 8 and
\* 9, and only the eighth Kalshi market is a confirmed match and a candidate.
NinthCandidateDroppedWitness ==
    /\ mpc = "done"
    /\ Len(SearchMarkets("kalshi")) = 8
    /\ Len(SearchMarkets("manifold")) >= 1
    /\ \E i \in 1..Len(judgment.items) : judgment.items[i].index = Num(9)
    /\ Len(confirmed) = 1
    /\ confirmed[1].market_id = "k8"
    /\ Len(emitted) = 1

\* The candidates of the pass had every explanation call succeeded.
GapsWithGeneratedExplanations == ArbitrageGaps(polymarket_prob, confirmed, {})

\* C16: when the generative call for an explanation fails, the detector still
\* emits the gap candidate with unchanged scores and evidence, its explanation
\* being the fallback string built from the gap type and the market odds; a
\* failed explanation never suppresses a gap or fails the detector.
FailedExplanationKeepsGap ==
    mpc = "done" =>
        /\ Len(emitted) = Len(GapsWithGeneratedExplanations)
        /\ \A i \in 1..Len(emitted) :
              /\ [emitted[i] EXCEPT !.explanation = <<>>]
                    = [GapsWithGeneratedExplanations[i] EXCEPT !.explanation = <<>>]
              /\ emitted[i].explanation =
                    IF i \in llmFails THEN FallbackExplanation("arbitrage", polymarket_prob)
                    ELSE <<"generated">>

\* C16 witness: two candidates of one pass, the explanation call of the first
\* failed and that of the second succeeded.
FallbackExplanationWitness ==
    /\ mpc = "done"
    /\ llmFails = {1}
    /\ Len(emitted) = 2
    /\ emitted[1].explanation = FallbackExplanation("arbitrage", polymarket_prob)
    /\ emitted[2].explanation = <<"generated">>
    /\ emitted[1].confidence_score = GapsWithGeneratedExplanations[1].confidence_score

(***************************************************************************)
(* _generate_gap_explanation and detect_pattern_deviation.                 *)
(***************************************************************************)
MaxRun == 9
MIN_HISTORY == 10

RECURSIVE SumSeq(_)
SumSeq(s) == IF s = <<>> THEN 0 ELSE Head(s) + SumSeq(Tail(s))

RECURSIVE Gcd(_, _)
Gcd(a, b) == IF b = 0 THEN a ELSE Gcd(b, a % b)

RECURSIVE GcdSeq(_)
GcdSeq(s) == IF s = <<>> THEN 0 ELSE Gcd(Abs(Head(s)), GcdSeq(Tail(s)))

\* x - avg_odds for every point x of the series, times n and divided by the
\* common divisor of these numbers: the z-score does not depend on the unit.
Deviations(hist) ==
    LET raw == [i \in 1..Len(hist) |-> Len(hist) * hist[i] - SumSeq(hist)]
        g == GcdSeq(raw)
    IN  IF g = 0 THEN raw ELSE [i \in 1..Len(hist) |-> raw[i] \div g]

\* n * variance in that unit, the variance as sum((x - avg) ** 2) / n.
SquaredDeviations(hist) ==
    SumSeq([i \in 1..Len(hist) |-> Deviations(hist)[i] * Deviations(hist)[i]])

\* n * (the last point's deviation) ** 2, to compare with k * k * SquaredDeviations.
LastSquaredTimesN(hist) == Len(hist) * Deviations(hist)[Len(hist)] * Deviations(hist)[Len(hist)]

\* abs(z_score) >= k, with z_score = 0 unless std_dev > 0.  Where abs(z_score)
\* is exactly k, the floating-point value may fall just below it: lossy.
AbsZAtLeast(hist, k, lossy) ==
    IF SquaredDeviations(hist) > 0
    THEN \/ LastSquaredTimesN(hist) > k * k * SquaredDeviations(hist)
         \/ LastSquaredTimesN(hist) = k * k * SquaredDeviations(hist) /\ ~lossy
    ELSE k <= 0

\* The largest k with k * k <= x.
ISqrt(x) == CHOOSE k \in 0..70 : k * k <= x /\ (k = 70 \/ (k + 1) * (k + 1) > x)

\* int(min(abs(z_score) / 3.0, 1.0) * 70 + 10); a value that is exactly an
\* integer may be truncated to the integer below it: lossy.
PatternConfidence(hist, lossy) ==
    LET num == 4900 * LastSquaredTimesN(hist)
        den == 9 * SquaredDeviations(hist)
        k == ISqrt(num \div den)
    IN  IF LastSquaredTimesN(hist) > 9 * SquaredDeviations(hist) THEN 80
        ELSE IF lossy /\ num % den = 0 /\ k * k = num \div den THEN 10 + k - 1
        ELSE 10 + k

EnoughHistoryLoose(hist) == Len(hist) >= 2
EnoughHistory(hist) == Len(hist) >= MIN_HISTORY

\* detect_pattern_deviation for a contract that exists: no gap (<<>>) or one.
DetectPatternDeviation(hist, odds, fails, lossy) ==
    IF ~settings.enable_historical_analysis THEN <<>>
    ELSE IF ~EnoughHistory(hist) THEN <<>>
    ELSE IF ~AbsZAtLeast(hist, 2, lossy) THEN <<>>
    ELSE LET n == Len(hist)
             dev == n * hist[n] - SumSeq(hist)
             expl == GenerateGapExplanation("pattern_deviation", hist[n], fails)
         IN  IF expl.raised THEN <<>>
             ELSE <<[gap_type |-> "pattern_deviation",
                     confidence_score |-> PatternConfidence(hist, lossy),
                     explanation |-> expl.text,
                     market_odds |-> odds,
                     implied_odds |-> SumSeq(hist) \div n,
                     edge_percentage |-> (100 * Abs(dev) + n \div 2) \div n,
                     historical_points |-> n]>>

OddsValues == {30, 50, 90}

\* Series of one repeated value followed by up to two more points.
HistorySeries ==
    {[i \in 1..m |-> a] \o tail :
        a \in OddsValues, m \in (MaxRun - 2)..MaxRun, tail \in SeqsUpTo(OddsValues, 2)}

InitPattern ==
    /\ history \in HistorySeries
    /\ sentiments = <<>>
    /\ llmFails \in {{}, {1}}
    /\ polymarket_prob \in {NoOdds, 50}
    /\ settings \in {[DefaultSettings EXCEPT !.enable_historical_analysis = b] : b \in BOOLEAN}
    /\ gapStore = <<>>
    /\ report = NoReport
    /\ candidates = <<>>
    /\ judgment = [kind |-> "raise", items |-> <<>>]
    /\ confirmed = <<>>
    /\ emitted = <<>>
    /\ mpc = "call"
    /\ BatchIdle
    /\ StoreIdle
    /\ CycleIdle
    /\ ServiceIdle

\* detect_pattern_deviation; dbOk: the contract exists and the queries succeed,
\* lossy: floating-point rounding goes against an exact boundary.
CallDetectPatternDeviation ==
    /\ mpc = "call"
    /\ \E dbOk \in BOOLEAN, lossy \in BOOLEAN :
          /\ emitted' = IF dbOk
                        THEN DetectPatternDeviation(history, polymarket_prob, 1 \in llmFails, lossy)
                        ELSE <<>>
          /\ mpc' = IF dbOk THEN "done" ELSE "failed"
    /\ UNCHANGED <<polymarket_prob, candidates, judgment, confirmed, inputVars>>
    /\ UNCHANGED <<batchVars, storeVars, reportVars, cycleVars, serviceVars>>

NextPattern == CallDetectPatternDeviation

SpecPattern == InitPattern /\ [][NextPattern]_vars

\* The population z-score of the last point, by E[x^2] - E[x]^2: |z| >= 2 and the
\* standard deviation is not 0.
LastPointZAtLeastTwo ==
    LET n == Len(history)
        s == SumSeq(history)
        q == SumSeq([i \in 1..n |-> history[i] * history[i]])
    IN  /\ n * q - s * s > 0
        /\ (n * history[n] - s) * (n * history[n] - s) >= 4 * (n * q - s * s)

\* C12: detect_pattern_deviation emits a candidate only when historical analysis
\* is enabled, the contract has at least 10 odds points and the population
\* z-score of the last point has |z| >= 2.0 (z is 0 when the deviation is 0).
PatternOnlyWhenDeviant ==
    mpc = "done" /\ emitted # <<>> =>
        /\ settings.enable_historical_analysis
        /\ Len(history) >= 10
        /\ LastPointZAtLeastTwo
        /\ \E i, j \in 1..Len(history) : history[i] # history[j]

\* C12 witness: a candidate for a series of exactly 10 points whose last point
\* is exactly two standard deviations from the mean.
PatternAtBoundaryWitness ==
    /\ mpc = "done"
    /\ emitted # <<>>
    /\ Len(history) = 10
    /\ emitted[1].confidence_score = 56
    /\ emitted[1].explanation = FallbackExplanation("pattern_deviation", history[10])

(***************************************************************************)
(* detect_sentiment_mismatch.  Scores are in thousandths, odds and the     *)
(* threshold in hundredths; a gap of a series of n records is kept times   *)
(* 10000 * n.                                                              *)
(***************************************************************************)
MaxRecords == 4
MIN_SENTIMENT == 5

Scores(rows) == [i \in 1..Len(rows) |-> rows[i].score]

\* implied_prob = 0.5 + avg_sentiment * 0.4, times 10000 * n.
ImpliedTimesN(rows) == 5000 * Len(rows) + 4 * SumSeq(Scores(rows))

\* gap_size = abs(implied_prob - market_odds), times 10000 * n.
GapTimesN(rows, odds) == Abs(ImpliedTimesN(rows) - 100 * Len(rows) * odds)

PositiveCount(rows) == Len(SelectSeq(rows, LAMBDA r : r.label = "positive"))

\* int(gap_factor + volume_factor + consistency_factor)
SentimentConfidence(rows, odds) ==
    LET n == Len(rows)
    IN  (Min(GapTimesN(rows, odds), 3000 * n) + 45 * n * Min(n, 50)
            + 75 * Abs(60 * PositiveCount(rows) - 30 * n)) \div (75 * n)

EnoughSentimentLoose(rows) == Len(rows) >= 1
EnoughSentiment(rows) == Len(rows) >= MIN_SENTIMENT

\* detect_sentiment_mismatch for a contract that exists: no gap (<<>>) or one.
DetectSentimentMismatch(rows, odds, fails) ==
    IF ~HasOdds(odds) THEN <<>>
    ELSE IF rows = <<>> \/ ~EnoughSentiment(rows) THEN <<>>
    ELSE IF GapTimesN(rows, odds) < 100 * Len(rows) * settings.gap_detection_threshold THEN <<>>
    ELSE LET n == Len(rows)
             expl == GenerateGapExplanation("sentiment_mismatch", odds, fails)
         IN  IF expl.raised THEN <<>>
             ELSE <<[gap_type |-> "sentiment_mismatch",
                     confidence_score |-> SentimentConfidence(rows, odds),
                     explanation |-> expl.text,
                     market_odds |-> odds,
                     implied_odds |-> ImpliedTimesN(rows) \div (100 * n),
                     edge_percentage |-> (2 * GapTimesN(rows, odds) + n) \div (2 * n),
                     direction |-> IF ImpliedTimesN(rows) > 100 * n * odds
                                   THEN "bullish" ELSE "bearish",
                     total_posts |-> n]>>

SentimentRows ==
    {[score |-> 0, label |-> "neutral", age |-> "recent"],
     [score |-> 1000, label |-> "positive", age |-> "recent"],
     [score |-> -500, label |-> "negative", age |-> "older"]}

\* One row repeated, followed by up to two more rows.
SentimentSeries ==
    {[i \in 1..m |-> r] \o tail :
        r \in SentimentRows, m \in (MaxRecords - 1)..MaxRecords, tail \in SeqsUpTo(SentimentRows, 2)}

InitSentiment ==
    /\ history = <<>>
    /\ sentiments \in SentimentSeries \cup {<<>>}
    /\ llmFails \in {{}, {1}}
    /\ polymarket_prob \in {NoOdds, 0, 35, 36, 90}
    /\ settings = DefaultSettings
    /\ gapStore = <<>>
    /\ report = NoReport
    /\ candidates = <<>>
    /\ judgment = [kind |-> "raise", items |-> <<>>]
    /\ confirmed = <<>>
    /\ emitted = <<>>
    /\ mpc = "call"
    /\ BatchIdle
    /\ StoreIdle
    /\ CycleIdle
    /\ ServiceIdle

\* detect_sentiment_mismatch; dbOk: the contract exists and the queries succeed.
CallDetectSentimentMismatch ==
    /\ mpc = "call"
    /\ \E dbOk \in BOOLEAN :
          /\ emitted' = IF dbOk
                        THEN DetectSentimentMismatch(sentiments, polymarket_prob, 1 \in llmFails)
                        ELSE <<>>
          /\ mpc' = IF dbOk THEN "done" ELSE "failed"
    /\ UNCHANGED <<polymarket_prob, candidates, judgment, confirmed, inputVars>>
    /\ UNCHANGED <<batchVars, storeVars, reportVars, cycleVars, serviceVars>>

NextSentiment == CallDetectSentimentMismatch

SpecSentiment == InitSentiment /\ [][NextSentiment]_vars

\* SpecZeroOdds: a contract with sentiment rows and competitor markets on which
\* one of the two detectors that read current_yes_odds is run.
InitZeroOdds ==
    /\ history = <<>>
    /\ sentiments \in {<<>>} \cup {[i \in 1..(MaxRecords + 1) |-> r] : r \in SentimentRows}
    /\ llmFails = {}
    /\ polymarket_prob \in {NoOdds, 0, 20}
    /\ settings = DefaultSettings
    /\ gapStore = <<>>
    /\ report = NoReport
    /\ candidates \in SearchResults
    /\ judgment \in ArbitrageJudgments
    /\ confirmed = <<>>
    /\ emitted = <<>>
    /\ mpc = "call"
    /\ BatchIdle
    /\ StoreIdle
    /\ CycleIdle
    /\ ServiceIdle

NextZeroOdds == CallDetectSentimentMismatch \/ DetectCrossMarketArbitrage

SpecZeroOdds == InitZeroOdds /\ [][NextZeroOdds]_vars


\* C27: a contract whose current yes-odds is exactly 0 gets no candidate from
\* detect_sentiment_mismatch or detect_cross_market_arbitrage, like a contract
\* without odds, whatever the sentiment rows and the competitor prices are.
ZeroOddsEmitNothing ==
    (mpc # "call" /\ polymarket_prob \in {0, NoOdds}) => emitted = <<>>

\* C27 witness: a detector ran on a contract with odds 0 whose sentiment rows
\* and confirmed competitor matches both give a candidate at odds 0.20.
ZeroOddsWitness ==
    /\ mpc = "done"
    /\ polymarket_prob = 0
    /\ emitted = <<>>
    /\ DetectSentimentMismatch(sentiments, 20, FALSE) # <<>>
    /\ ArbitrageGaps(20, MatchMarketsWithLlm(AllCandidates, judgment), {}) # <<>>

\* The contract has a current yes-odds value, at least 5 sentiment records, and
\* |implied_prob - market_odds| is at least the threshold.
MismatchExpected ==
    /\ polymarket_prob # NoOdds
    /\ Len(sentiments) >= 5
    /\ GapTimesN(sentiments, polymarket_prob)
          >= 100 * Len(sentiments) * settings.gap_detection_threshold

\* C13: detect_sentiment_mismatch emits a candidate if and only if the contract
\* has a current yes-odds value, at least 5 sentiment records and
\* |implied_prob - market_odds| >= the threshold; the candidate is bullish exactly
\* when implied_prob > market_odds and its edge is 100 * |implied_prob - market_odds|.
MismatchIffExpected ==
    mpc = "done" =>
        /\ emitted # <<>> <=> MismatchExpected
        /\ emitted # <<>> =>
              /\ emitted[1].direction = "bullish"
                    <=> ImpliedTimesN(sentiments) > 100 * Len(sentiments) * polymarket_prob
              /\ emitted[1].edge_percentage
                    = (2 * GapTimesN(sentiments, polymarket_prob) + Len(sentiments))
                          \div (2 * Len(sentiments))

(***************************************************************************)
(* detect_information_asymmetry.  A shift between n1 recent and n2 older   *)
(* records is kept times 1000 * n1 * n2.                                   *)
(***************************************************************************)
MIN_WINDOW == 5
HISTORY_LIMIT == 10

\* analyzed_at within the last 3 hours; between 6 and 3 hours ago.
RecentSentiment(rows) == SelectSeq(rows, LAMBDA r : r.age = "recent")
OlderSentiment(rows) == SelectSeq(rows, LAMBDA r : r.age = "older")

\* sentiment_shift = recent_avg - older_avg, times 1000 * n1 * n2.
ShiftTimesN(rows) ==
    SumSeq(Scores(RecentSentiment(rows))) * Len(OlderSentiment(rows))
        - SumSeq(Scores(OlderSentiment(rows))) * Len(RecentSentiment(rows))

WindowProduct(rows) == Len(RecentSentiment(rows)) * Len(OlderSentiment(rows))

\* The newest point minus the oldest of the (at most) 10 newest points.
OddsMovement(hist) == hist[Len(hist)] - hist[Max(1, Len(hist) - HISTORY_LIMIT + 1)]

Sign(x) == IF x > 0 THEN 1 ELSE IF x < 0 THEN -1 ELSE 0

\* The odds are DECIMAL(5,4) columns converted with float() before the
\* subtraction. The pairs <<newest, oldest>> of MovementOdds that lie exactly 0.05
\* apart and whose difference as binary doubles is above 0.05:
\* float(0.55) - float(0.50) = 0.050000000000000044.
RoundedAboveFive == {<<55, 50>>, <<50, 55>>}

\* abs(odds_movement) > 0.05 on the floats of the newest and oldest of the last 10 points.
MovementAboveFive(hist) ==
    \/ Abs(OddsMovement(hist)) > 5
    \/ /\ Abs(OddsMovement(hist)) = 5
       /\ <<hist[Len(hist)], hist[Max(1, Len(hist) - HISTORY_LIMIT + 1)]>> \in RoundedAboveFive

\* int(min(shift_magnitude / 0.5, 1.0) * 60 + 20)
AsymmetryConfidence(rows) ==
    (6 * Min(Abs(ShiftTimesN(rows)), 500 * WindowProduct(rows))) \div (50 * WindowProduct(rows)) + 20

\* detect_information_asymmetry for a contract that exists: no gap (<<>>) or one.
DetectInformationAsymmetry(rows, hist, odds, fails) ==
    IF Len(RecentSentiment(rows)) < MIN_WINDOW \/ Len(OlderSentiment(rows)) < MIN_WINDOW THEN <<>>
    ELSE IF Abs(ShiftTimesN(rows)) < 300 * WindowProduct(rows) THEN <<>>
    ELSE IF Len(hist) < 2 THEN <<>>
    ELSE IF /\ (IF ShiftTimesN(rows) > 0 THEN 1 ELSE -1) = Sign(OddsMovement(hist))
            /\ MovementAboveFive(hist)
         THEN <<>>
    ELSE LET expl == GenerateGapExplanation("info_asymmetry", hist[Len(hist)], fails)
         IN  IF expl.raised THEN <<>>
             ELSE <<[gap_type |-> "info_asymmetry",
                     confidence_score |-> AsymmetryConfidence(rows),
                     explanation |-> expl.text,
                     market_odds |-> odds,
                     implied_odds |-> NoOdds,
                     edge_percentage |-> (10 * Abs(ShiftTimesN(rows)) + WindowProduct(rows))
                                            \div (2 * WindowProduct(rows)),
                     recent_posts |-> Len(RecentSentiment(rows)),
                     odds_movement |-> OddsMovement(hist)]>>

SentimentRun(score, m, age) == [i \in 1..m |-> [score |-> score, label |-> "neutral", age |-> age]]

\* A run of recent rows, a run of older rows and up to one more row.
WindowSeries ==
    {SentimentRun(a, m1, "recent") \o SentimentRun(b, m2, "older") \o tail :
        a \in {0, 300, 1000}, b \in {0, 1000},
        m1 \in MaxRecords..(MaxRecords + 1), m2 \in MaxRecords..(MaxRecords + 1),
        tail \in SeqsUpTo({[score |-> 1000, label |-> "positive", age |-> "recent"],
                           [score |-> -500, label |-> "negative", age |-> "older"],
                           [score |-> -1000, label |-> "negative", age |-> "old"]}, 1)}

MovementOdds == {49, 50, 55}

\* Up to one point, a run of one value, up to one point.
MovementSeries ==
    {head \o [i \in 1..m |-> a] \o last :
        head \in SeqsUpTo(MovementOdds, 1), a \in MovementOdds, m \in {0, MaxRun},
        last \in SeqsUpTo(MovementOdds, 1)}

InitAsymmetry ==
    /\ history \in MovementSeries
    /\ sentiments \in WindowSeries
    /\ llmFails \in {{}, {1}}
    /\ polymarket_prob = 50
    /\ settings = DefaultSettings
    /\ gapStore = <<>>
    /\ report = NoReport
    /\ candidates = <<>>
    /\ judgment = [kind |-> "raise", items |-> <<>>]
    /\ confirmed = <<>>
    /\ emitted = <<>>
    /\ mpc = "call"
    /\ BatchIdle
    /\ StoreIdle
    /\ CycleIdle
    /\ ServiceIdle

\* detect_information_asymmetry; dbOk: the contract exists and the queries succeed.
CallDetectInformationAsymmetry ==
    /\ mpc = "call"
    /\ \E dbOk \in BOOLEAN :
          /\ emitted' = IF dbOk
                        THEN DetectInformationAsymmetry(sentiments, history, polymarket_prob,
                                                        1 \in llmFails)
                        ELSE <<>>
          /\ mpc' = IF dbOk THEN "done" ELSE "failed"
    /\ UNCHANGED <<polymarket_prob, candidates, judgment, confirmed, inputVars>>
    /\ UNCHANGED <<batchVars, storeVars, reportVars, cycleVars, serviceVars>>

NextAsymmetry == CallDetectInformationAsymmetry

SpecAsymmetry == InitAsymmetry /\ [][NextAsymmetry]_vars

RowsOfAge(age) == {i \in 1..Len(sentiments) : sentiments[i].age = age}

RECURSIVE ScoreSum(_)
ScoreSum(I) ==
    IF I = {} THEN 0
    ELSE LET i == CHOOSE x \in I : TRUE IN sentiments[i].score + ScoreSum(I \ {i})

\* recent mean - older mean, times 1000 * n1 * n2.
MeanShift ==
    ScoreSum(RowsOfAge("recent")) * Cardinality(RowsOfAge("older"))
        - ScoreSum(RowsOfAge("older")) * Cardinality(RowsOfAge("recent"))

\* Newest minus oldest of the last 10 points.
LastTenMovement ==
    history[Len(history)] - history[IF Len(history) > 10 THEN Len(history) - 9 ELSE 1]

AsymmetryExpected ==
    /\ Cardinality(RowsOfAge("recent")) >= 5
    /\ Cardinality(RowsOfAge("older")) >= 5
    /\ Abs(MeanShift) >= 300 * Cardinality(RowsOfAge("recent")) * Cardinality(RowsOfAge("older"))
    /\ Len(history) >= 2
    /\ ~(/\ Abs(LastTenMovement) > 5
         /\ (LastTenMovement > 0 <=> MeanShift > 0))

\* C14: detect_information_asymmetry emits a candidate if and only if there are
\* at least 5 recent and at least 5 older records, |recent mean - older mean| >=
\* 0.3, at least 2 odds points, and the odds movement over the last 10 points is
\* not one of the shift's sign with a magnitude above 0.05.
AsymmetryIffExpected ==
    mpc = "done" => (emitted # <<>> <=> AsymmetryExpected)

(***************************************************************************)
(* The gap detection and reporting stages of run_single_cycle:             *)
(* analyze_all_contracts calls detect_all_gaps per contract, adds the      *)
(* qualifying gaps to one session and commits once; then the reporter runs.*)
(***************************************************************************)
Detectors == <<"sentiment_mismatch", "info_asymmetry", "pattern_deviation", "arbitrage">>
AllDetectors == {Detectors[i] : i \in 1..Len(Detectors)}

GapCandidate(c, t, conf, edge) ==
    [contract_id |-> c, gap_type |-> t, confidence_score |-> conf, edge_percentage |-> edge]

\* What a detector may return for a contract: nothing or its candidates.
DetectorResults(c, t) ==
    {<<>>, <<GapCandidate(c, t, 80, 1500)>>}
    \cup (IF t = "pattern_deviation" THEN {<<GapCandidate(c, t, 56, 600)>>} ELSE {})
    \cup (IF t = "arbitrage" THEN {<<GapCandidate(c, t, 115, 5000)>>} ELSE {})

\* except Exception in each detector; a KeyboardInterrupt is not an Exception.
DetectorCatchesNothing(exc) == FALSE
DetectorCatches(exc) == exc = "Exception"

\* The CHECK constraint of detected_gaps.confidence_score.
CheckConstraintOk(row) == row.confidence_score >= 0 /\ row.confidence_score <= 100

\* The rows a commit inserts after the n rows the table holds.
GapRows(rows, n) ==
    [i \in 1..Len(rows) |->
        [id |-> n + i, contract_id |-> rows[i].contract_id, gap_type |-> rows[i].gap_type,
         confidence_score |-> rows[i].confidence_score,
         edge_percentage |-> rows[i].edge_percentage,
         detected_at |-> n + i, resolved |-> FALSE]]

\* The active contracts in the order of the query.
ContractOrders == {<<>>, <<"c1">>, <<"c2">>, <<"c1", "c2">>, <<"c2", "c1">>}

InitCycle ==
    /\ cpc = "start"
    /\ queue = <<>>
    /\ dnext = 1
    /\ attempted = [c \in Contracts |-> {}]
    /\ found = <<>>
    /\ pending = <<>>
    /\ added = <<>>
    /\ commitResult = "none"
    /\ BatchIdle
    /\ StoreIdle
    /\ ReportIdle
    /\ MatchIdle
    /\ InputIdle
    /\ ServiceIdle

\* analyze_all_contracts up to the loop: the query for the active contracts.
StartGapDetection ==
    /\ cpc = "start"
    /\ \E q \in ContractOrders, dbOk \in BOOLEAN :
          /\ queue' = IF dbOk THEN q ELSE <<>>
          /\ cpc' = IF ~dbOk THEN "report" ELSE IF q = <<>> THEN "commit" ELSE "detect"
    /\ UNCHANGED <<dnext, attempted, found, pending, added, commitResult>>
    /\ UNCHANGED <<batchVars, storeVars, reportVars, matchVars, inputVars, serviceVars>>

\* One detector call of detect_all_gaps for the contract at the head of the queue.
DetectStep ==
    /\ cpc = "detect"
    /\ dnext \in 1..Len(Detectors)
    /\ \E exc \in {"none", "Exception"}, res \in DetectorResults(Head(queue), Detectors[dnext]) :
          /\ attempted' = [attempted EXCEPT ![Head(queue)] = @ \cup {Detectors[dnext]}]
          /\ IF exc = "none" \/ DetectorCatches(exc)
             THEN /\ found' = found \o (IF exc = "none" THEN res ELSE <<>>)
                  /\ dnext' = dnext + 1
                  /\ UNCHANGED <<cpc, queue, pending>>
             ELSE /\ found' = <<>>
                  /\ dnext' = 1
                  /\ queue' = <<>>
                  /\ pending' = <<>>
                  /\ cpc' = "report"
    /\ UNCHANGED <<added, commitResult>>
    /\ UNCHANGED <<batchVars, storeVars, reportVars, matchVars, inputVars, serviceVars>>

\* The loop over the gaps of one contract: session.add for those that reach the
\* minimum confidence.
StoreGaps ==
    /\ cpc = "detect"
    /\ dnext = Len(Detectors) + 1
    /\ LET keep == SelectSeq(found,
                      LAMBDA g : g.confidence_score >= settings.min_confidence_score)
       IN  /\ pending' = pending \o keep
           /\ added' = added \o keep
    /\ queue' = Tail(queue)
    /\ dnext' = 1
    /\ found' = <<>>
    /\ cpc' = IF Tail(queue) = <<>> THEN "commit" ELSE "detect"
    /\ UNCHANGED <<attempted, commitResult>>
    /\ UNCHANGED <<batchVars, storeVars, reportVars, matchVars, inputVars, serviceVars>>

\* session.commit() after the loop; a failure rolls the session back.
CommitGaps ==
    /\ cpc = "commit"
    /\ \E dbOk \in BOOLEAN :
          /\ commitResult' = IF ~dbOk THEN "db_error"
                             ELSE IF \A i \in 1..Len(pending) : CheckConstraintOk(pending[i])
                                  THEN "committed" ELSE "rejected"
          /\ gapStore' = IF commitResult' = "committed"
                         THEN gapStore \o GapRows(pending, Len(gapStore)) ELSE gapStore
    /\ pending' = <<>>
    /\ cpc' = "report"
    /\ UNCHANGED <<queue, dnext, attempted, found, added, settings, report>>
    /\ UNCHANGED <<batchVars, storeVars, matchVars, inputVars, serviceVars>>

\* KeyboardInterrupt during gap detection: get_session closes the session
\* without a commit and the cycle ends.
Interrupt ==
    /\ cpc \in {"detect", "commit"}
    /\ cpc' = "aborted"
    /\ pending' = <<>>
    /\ UNCHANGED <<queue, dnext, attempted, found, added, commitResult>>
    /\ UNCHANGED <<batchVars, storeVars, reportVars, matchVars, inputVars, serviceVars>>

\* Step 4 of run_single_cycle.
ReportStep ==
    /\ cpc = "report"
    /\ \E ids \in GapIdChoices, dbOk \in BOOLEAN : report' = RunReport(ids, dbOk)
    /\ cpc' = "done"
    /\ UNCHANGED <<queue, dnext, attempted, found, pending, added, commitResult, settings, gapStore>>
    /\ UNCHANGED <<batchVars, storeVars, matchVars, inputVars, serviceVars>>

NextCycle == StartGapDetection \/ DetectStep \/ StoreGaps \/ CommitGaps \/ Interrupt \/ ReportStep

SpecCycle == InitCycle /\ [][NextCycle]_vars

\* C11: when the reporter runs, every contract the cycle analysed has had all
\* four detectors attempted.
AllDetectorsBeforeReport ==
    cpc \in {"report", "done"} =>
        \A c \in Contracts : attempted[c] = {} \/ attempted[c] = AllDetectors

\* C11 witness: the reporter has run after both contracts were analysed, one of
\* them without any candidate.
ReportedAfterDetectorsWitness ==
    /\ cpc = "done"
    /\ \A c \in Contracts : attempted[c] = AllDetectors
    /\ \E c \in Contracts : \A i \in 1..Len(added) : added[i].contract_id # c
    /\ report.gaps # <<>>

\* The table holds a row for the candidate.
Persisted(g) ==
    \E k \in 1..Len(gapStore) :
        /\ gapStore[k].contract_id = g.contract_id
        /\ gapStore[k].gap_type = g.gap_type
        /\ gapStore[k].confidence_score = g.confidence_score

\* C17: when the store rejects a contract's candidate, only that contract's
\* writes are rolled back: the candidates added for every other contract of the
\* cycle are persisted.
RollbackPerContract ==
    cpc \in {"report", "done"} /\ commitResult = "rejected" =>
        \A i \in 1..Len(added) :
            (\A j \in 1..Len(added) :
                added[j].contract_id = added[i].contract_id => CheckConstraintOk(added[j]))
                => Persisted(added[i])

\* C18: after an abort during gap detection the candidates stored for the
\* contracts completed before it are in the persistent store.
AbortKeepsCompleted ==
    cpc = "aborted" => \A i \in 1..Len(added) : Persisted(added[i])

\* C1: _analyze_batch returns exactly len(contents) entries, each None or a
\* sentiment record, whatever the generative call gave.
IsEntry(r) ==
    \/ r = None
    \/ /\ ~r.isNone
       /\ r.score \in Int
       /\ r.confidence \in Int
       /\ r.topics.t \in {"list", "str"}

BatchLengthAligned ==
    bpc = "done" => /\ Len(results) = contents
                    /\ \A i \in 1..Len(results) : IsEntry(results[i])

\* C1 witness: a short array of three inputs was padded with None.
BatchPaddedWitness ==
    /\ bpc = "done"
    /\ contents = 3
    /\ response.kind = "list"
    /\ Len(response.items) = 1
    /\ ~results[1].isNone
    /\ results[3] = None

\* C2: in a response with one element per input, a malformed element gives None
\* in its own slot and every well-formed element gives its record in its slot.
WellFormed(item) ==
    /\ item.form = "dict"
    /\ item.sentiment_score.t = "num"
    /\ item.sentiment_label.t = "str"
    /\ item.confidence.t = "num"
    /\ item.topics.t = "list"

Malformed(item) ==
    \/ item.form # "dict"
    \/ item.sentiment_score.t \notin {"num", "nan"}
    \/ item.sentiment_label.t # "str"
    \/ item.confidence.t \notin {"num", "nan"}
    \/ item.topics.t \notin {"list", "missing"}

MalformedSlotIsolated ==
    (bpc = "done" /\ response.kind = "list" /\ Len(response.items) = contents) =>
        \A i \in 1..contents :
            /\ Malformed(response.items[i]) => results[i] = None
            /\ WellFormed(response.items[i]) => results[i] = ItemRecord(response.items[i])
====
